---- MODULE Spec2Model ----
(***************************************************************************)
(* EdgeWizard backend: the in-memory edge stylization pipeline             *)
(* (edgewizard_pipeline.py, line_style.py) as a state machine.             *)
(*                                                                         *)
(* Numbers.  An 8-bit sample is an integer 0..255.  A float of the source  *)
(* is a fixed-point integer counted in units of 1/ONE, ONE = 255 * 40 =    *)
(* 10200, so that k/255 (= 40k) and every tuning constant of the source    *)
(* (multiples of 0.005 = 51) are exact.  Divisions round down.  TLC        *)
(* integers are 32 bits wide, which every product below respects.          *)
(*                                                                         *)
(* Images.  An array of shape (H, W) is a sequence of H rows, each a       *)
(* sequence of W cells; an RGB cell is <<r, g, b>>.  Column and row        *)
(* indices of the source are 0-based, those of a sequence 1-based: a       *)
(* source index x is cell x + 1.                                           *)
(***************************************************************************)
EXTENDS Integers, Sequences, FiniteSets, TLC

ONE == 255 * 40

Min2(a, b) == IF a <= b THEN a ELSE b

Max2(a, b) == IF a >= b THEN a ELSE b

Abs(x) == IF x < 0 THEN -x ELSE x

\* np.clip(x, lo, hi)
Clip(x, lo, hi) == Max2(lo, Min2(x, hi))

Rows(a) == Len(a)

Cols(a) == IF Len(a) = 0 THEN 0 ELSE Len(a[1])

\* arr.shape of a two-dimensional array
Shape(a) == <<Rows(a), Cols(a)>>

\* arr.size
Size(a) == Rows(a) * Cols(a)

\* every row has the same length: the value is a proper 2-D array
IsArray(a) == \A r \in 1..Len(a) : Len(a[r]) = Cols(a)

\* an array as a tuple of row tuples (the value of a function constructor,
\* with every cell evaluated once)
AsArray(a) == [r \in 1..Len(a) |-> a[r] \o <<>>] \o <<>>

RECURSIVE Flatten(_)
\* the cells of an array in row-major (C) order, as arr.ravel() / arr[mask]
Flatten(a) == IF a = <<>> THEN <<>> ELSE Head(a) \o Flatten(Tail(a))

RECURSIVE SeqMax(_)
SeqMax(s) == IF Len(s) = 1 THEN s[1] ELSE Max2(Head(s), SeqMax(Tail(s)))

RECURSIVE SeqMin(_)
SeqMin(s) == IF Len(s) = 1 THEN s[1] ELSE Min2(Head(s), SeqMin(Tail(s)))

RECURSIVE Insert(_, _)
Insert(x, s) ==
    IF s = <<>> THEN <<x>>
    ELSE IF x <= Head(s) THEN <<x>> \o s
    ELSE <<Head(s)>> \o Insert(x, Tail(s))

RECURSIVE SortAsc(_)
\* np.sort: ascending
SortAsc(s) == IF s = <<>> THEN <<>> ELSE Insert(Head(s), SortAsc(Tail(s)))

(***************************************************************************)
(* np.percentile(vals, q), default linear interpolation, q given in tenths *)
(* of a percent (5.0 -> 50, 99.5 -> 995).  The virtual index is            *)
(* q/100 * (n - 1); the result interpolates between its two neighbours.    *)
(***************************************************************************)
Percentile(vals, q10) ==
    LET n    == Len(vals)
        srt  == SortAsc(vals)
        idx  == q10 * (n - 1)
        lo   == idx \div 1000
        frac == idx % 1000
        hi   == Min2(lo + 1, n - 1)
    IN  srt[lo + 1] + ((srt[hi + 1] - srt[lo + 1]) * frac) \div 1000

\* np.median
Median(vals) == Percentile(vals, 500)

(***************************************************************************)
(* CONFIG (edgewizard_pipeline.py, lines 15-44), floats in units of 1/ONE  *)
(***************************************************************************)
EDGE_GAIN == 2
LINE_SOFT_NORMALIZE == TRUE
LINE_MASK_THRESH == 10047
LINE_BRIGHTEN_STRONG == 8160
LINE_BRIGHTEN_SOFT == 4080
ENABLE_BRIGHT_EQUALIZER == TRUE
BRIGHT_EQ_LOW_PCT == 50
BRIGHT_EQ_HIGH_PCT == 950
BRIGHT_EQ_BASE == 2856
BRIGHT_EQ_RANGE == 612
ENABLE_GLOBAL_LIFT == TRUE
GLOBAL_LIFT == 102
MIN_LINE_BRIGHT == 3366
ENABLE_ULTRA_UNIFORMIZER == TRUE
ULTRA_LOW_PCT == 100
ULTRA_BAND_MIN == 3366
ULTRA_BAND_MAX == 3672
BORDER_WIDTH_PX == 2
\* RG_MIN_COVERAGE = 0.25 and RG_MIN_MARGIN_FRAC = 0.02, in percent
RG_MIN_COVERAGE == 25
RG_MIN_MARGIN_FRAC == 2
RG_LINE_WIDTH == 1

\* x >= 1e-4 and x < 1e-4 for a float x in units of 1/ONE, exactly
Ge1e4(x) == x * 10000 >= ONE

\* 1e-6 in units of 1/ONE rounds down to 0: x > 1e-6 iff x > EPS6, and
\* x < 1e-6 iff x <= EPS6, for every non-negative fixed-point x
EPS6 == ONE \div 1000000

(***************************************************************************)
(* HELPERS                                                                 *)
(***************************************************************************)

\* np.array(img).astype("float32") / 255.0 of one 8-bit sample
ToFloat(k) == k * (ONE \div 255)

\* float_to_pil of one cell: clamp to [0,1], times 255, astype("uint8")
\* (truncation toward zero)
ToUint8(v) == (Clip(v, 0, ONE) * 255) \div ONE

\* float_to_pil: a float array to an 8-bit L image of the same shape
float_to_pil(arr) ==
    AsArray([r \in 1..Len(arr) |->
                [c \in 1..Len(arr[r]) |-> ToUint8(arr[r][c])]])

\* np.array(edge_img).astype("float32") / 255.0 of an L image
GrayToFloat(img) ==
    AsArray([r \in 1..Len(img) |->
                [c \in 1..Len(img[r]) |-> ToFloat(img[r][c])]])

\* channel ch (1 = R, 2 = G, 3 = B) of an RGB image as a float array
Channel(rgb_img, ch) ==
    AsArray([r \in 1..Len(rgb_img) |->
        [c \in 1..Len(rgb_img[r]) |-> ToFloat(rgb_img[r][c][ch])]])

(***************************************************************************)
(* x ** p for the fractional exponents of the source.  The fifth root has  *)
(* no integer counterpart; it is taken on a grid of 1/64 (65^5 < 2^31),    *)
(* rounded down: the result is monotone in x, 0 at 0 and ONE at ONE.       *)
(***************************************************************************)
Root5Floor(a) == CHOOSE r \in 0..64 : r^5 <= a /\ (r + 1)^5 > a

Quant64(x) == (x * 64) \div ONE

\* x ** EDGE_GAMMA, EDGE_GAMMA = 0.8
PowEdgeGamma(x) ==
    LET y == Quant64(x) IN (Root5Floor(y * y * y * y * 64) * ONE) \div 64

\* x ** 1.4 = x * x ** 0.4
Pow1p4(x) ==
    LET y == Quant64(x) IN (x * Root5Floor(y * y * 64 * 64 * 64)) \div 64

\* x ** 1.2 = x * x ** 0.2
Pow1p2(x) ==
    LET y == Quant64(x) IN (x * Root5Floor(y * 64 * 64 * 64 * 64)) \div 64

\* x ** 2.0
Pow2(x) == (x * x) \div ONE

RECURSIVE SqrtSearch(_, _, _)
SqrtSearch(n, lo, hi) ==
    IF hi - lo <= 1 THEN lo
    ELSE LET mid == (lo + hi) \div 2
         IN  IF mid * mid <= n THEN SqrtSearch(n, mid, hi)
             ELSE SqrtSearch(n, lo, mid)

\* floor of the square root of n, 0 <= n < 46000^2
ISqrt(n) == SqrtSearch(n, 0, 46000)

(***************************************************************************)
(* RGB -> Hue/Saturation (rgb_to_hs), one cell; r, g, b are floats         *)
(***************************************************************************)
\* Saturation with a defect: the value maxc is returned for delta / maxc
Saturation_Value(r, g, b) == Max2(Max2(r, g), b)

Saturation(r, g, b) ==
    LET maxc  == Max2(Max2(r, g), b)
        minc  == Min2(Min2(r, g), b)
        delta == maxc - minc
    IN  IF maxc > EPS6 THEN (delta * ONE) \div maxc ELSE 0

\* h_raw[mask_g] is assigned after h_raw[mask_r] and overrides it where both
\* channels are maximal; mask_b is the rest.  x % 6.0 takes the sign of 6.0.
Hue(r, g, b) ==
    LET maxc  == Max2(Max2(r, g), b)
        minc  == Min2(Min2(r, g), b)
        delta == maxc - minc
        h_raw == IF maxc = g THEN ((b - r) * ONE) \div delta + 2 * ONE
                 ELSE IF maxc = r THEN (((g - b) * ONE) \div delta) % (6 * ONE)
                 ELSE ((r - g) * ONE) \div delta + 4 * ONE
    IN  IF delta > EPS6 THEN h_raw \div 6 ELSE 0

\* rgb_to_hs: the hue and saturation arrays of a float RGB array
rgb_to_hs(rgb_img) ==
    LET R == Channel(rgb_img, 1)
        G == Channel(rgb_img, 2)
        B == Channel(rgb_img, 3)
    IN  [h |-> AsArray([r \in 1..Len(R) |-> [c \in 1..Len(R[r]) |->
                    Hue(R[r][c], G[r][c], B[r][c])]]),
         s |-> AsArray([r \in 1..Len(R) |-> [c \in 1..Len(R[r]) |->
                    Saturation(R[r][c], G[r][c], B[r][c])]])]

(***************************************************************************)
(* numpy pieces of _diff_linear and _diff_circular_hue                     *)
(***************************************************************************)
\* np.diff(a, axis=1): shape (H, W - 1)
Diff1(a) ==
    AsArray([r \in 1..Len(a) |->
                [c \in 1..(Len(a[r]) - 1) |-> a[r][c + 1] - a[r][c]]])

\* np.diff(a, axis=0): shape (H - 1, W)
Diff0(a) ==
    AsArray([r \in 1..(Len(a) - 1) |->
                [c \in 1..Len(a[r]) |-> a[r + 1][c] - a[r][c]]])

\* np.pad(a, widths, mode="edge") extending `axis` by one cell raises
\* ValueError ("can't extend empty axis") when that axis of a is empty
PadEdgeRaises(a, axis) == IF axis = 0 THEN Rows(a) = 0 ELSE Cols(a) = 0

\* np.pad(a, ((0, 0), (0, 1)), mode="edge")
PadEdgeRight(a) == AsArray([r \in 1..Len(a) |-> Append(a[r], a[r][Len(a[r])])])

\* np.pad(a, ((0, 1), (0, 0)), mode="edge")
PadEdgeBottom(a) == Append(a, a[Len(a)])

MapAbs(a) ==
    AsArray([r \in 1..Len(a) |-> [c \in 1..Len(a[r]) |-> Abs(a[r][c])]])

\* np.minimum(d, 1.0 - d)
MapCircular(a) ==
    AsArray([r \in 1..Len(a) |->
                [c \in 1..Len(a[r]) |-> Min2(a[r][c], ONE - a[r][c])]])

\* np.maximum(dx, dy) of two arrays of one shape
MapMax(dx, dy) ==
    AsArray([r \in 1..Len(dx) |->
                [c \in 1..Len(dx[r]) |-> Max2(dx[r][c], dy[r][c])]])

\* _diff_linear raises: the first np.pad when W = 1, the second when H = 1
DiffLinearRaises(channel) ==
    \/ PadEdgeRaises(MapAbs(Diff1(channel)), 1)
    \/ PadEdgeRaises(MapAbs(Diff0(channel)), 0)

_diff_linear(channel) ==
    LET dx == PadEdgeRight(MapAbs(Diff1(channel)))
        dy == PadEdgeBottom(MapAbs(Diff0(channel)))
    IN  MapMax(dx, dy)

DiffCircularHueRaises(hue) ==
    \/ PadEdgeRaises(MapCircular(MapAbs(Diff1(hue))), 1)
    \/ PadEdgeRaises(MapCircular(MapAbs(Diff0(hue))), 0)

_diff_circular_hue(hue) ==
    LET dx == PadEdgeRight(MapCircular(MapAbs(Diff1(hue))))
        dy == PadEdgeBottom(MapCircular(MapAbs(Diff0(hue))))
    IN  MapMax(dx, dy)

ComputeHueBoostRaises(hue, lum_norm) ==
    DiffCircularHueRaises(hue) \/ DiffLinearRaises(lum_norm)

\* dH / 0.20 and dL / 0.25 are dH * 5 and dL * 4
compute_hue_boost(hue, lum_norm, sat) ==
    LET dH == _diff_circular_hue(hue)
        dL == _diff_linear(lum_norm)
    IN  AsArray([r \in 1..Len(dH) |-> [c \in 1..Len(dH[r]) |->
            LET dH_norm == Clip(dH[r][c] * 5, 0, ONE)
                dL_norm == Clip(dL[r][c] * 4, 0, ONE)
                b1 == (Pow1p4(dH_norm) * Pow2(ONE - dL_norm)) \div ONE
                b2 == (b1 * Pow1p2(sat[r][c])) \div ONE
            IN  Clip(b2, 0, ONE)]])

(***************************************************************************)
(* skimage.filters.scharr: per axis a convolution with the edge weights    *)
(* [1, 0, -1] along the axis and the smoothing weights [3, 10, 3] / 16     *)
(* across it, borders by reflection (the border cell repeats), then        *)
(* sqrt(sum of squares) / sqrt(2).                                         *)
(***************************************************************************)
Reflect(i, n) == Clip(i, 1, n)

ScharrAxis0(a, r, c) ==
    LET H == Len(a)
        W == Len(a[r])
        d(cc) == a[Reflect(r + 1, H)][Reflect(cc, W)]
                 - a[Reflect(r - 1, H)][Reflect(cc, W)]
    IN  Abs(3 * d(c - 1) + 10 * d(c) + 3 * d(c + 1)) \div 16

ScharrAxis1(a, r, c) ==
    LET H == Len(a)
        W == Len(a[r])
        d(rr) == a[Reflect(rr, H)][Reflect(c + 1, W)]
                 - a[Reflect(rr, H)][Reflect(c - 1, W)]
    IN  Abs(3 * d(r - 1) + 10 * d(r) + 3 * d(r + 1)) \div 16

scharr(a) ==
    AsArray([r \in 1..Len(a) |-> [c \in 1..Len(a[r]) |->
        LET e0 == ScharrAxis0(a, r, c)
            e1 == ScharrAxis1(a, r, c)
        IN  ISqrt((e0 * e0 + e1 * e1) \div 2)]])

(***************************************************************************)
(* EDGE CORE (compute_edge_map)                                            *)
(***************************************************************************)
\* x / m for a maximum m floored at 1e-6 ("if m < 1e-6: m = 1e-6"); in the
\* floored case 0 <= x <= m rounds to 0 and x / 1e-6 = x * 10^6
DivMaxGuarded(x, m) == IF m <= EPS6 THEN x * 1000000 ELSE (x * ONE) \div m

Luminance(r, g, b) == (2126 * r + 7152 * g + 722 * b) \div 10000

\* lum_norm, lines 158-168
LumNorm(img_color) ==
    LET R == Channel(img_color, 1)
        G == Channel(img_color, 2)
        B == Channel(img_color, 3)
        lum == AsArray([r \in 1..Len(R) |-> [c \in 1..Len(R[r]) |->
                    Luminance(R[r][c], G[r][c], B[r][c])]])
        max_l == IF Size(lum) > 0 THEN SeqMax(Flatten(lum)) ELSE ONE
    IN  AsArray([r \in 1..Len(lum) |-> [c \in 1..Len(lum[r]) |->
            DivMaxGuarded(lum[r][c], max_l)]])

\* compute_edge_map raises (the ValueError of np.pad inside compute_hue_boost)
ComputeEdgeMapRaises(img_color) ==
    ComputeHueBoostRaises(rgb_to_hs(img_color).h, LumNorm(img_color))

\* grad = grad_lum + 1.5 * boost
CombineGrad(grad_lum, boost) ==
    AsArray([r \in 1..Len(grad_lum) |-> [c \in 1..Len(grad_lum[r]) |->
        grad_lum[r][c] + (3 * boost[r][c]) \div 2]])

\* lines 179-188: normalise by the maximum, gain, invert, gamma
InvField(grad) ==
    LET max_g == IF Size(grad) > 0 THEN SeqMax(Flatten(grad)) ELSE ONE
    IN  AsArray([r \in 1..Len(grad) |-> [c \in 1..Len(grad[r]) |->
            PowEdgeGamma(ONE - Clip(DivMaxGuarded(grad[r][c], max_g)
                                     * EDGE_GAIN, 0, ONE))]])

\* ContrastNormalize with the guard high - low > 1e-4
ContrastNormalize_Guarded(inv) ==
    LET low  == Percentile(Flatten(inv), 5)
        high == Percentile(Flatten(inv), 995)
    IN  IF (high - low) * 10000 > ONE
        THEN AsArray([r \in 1..Len(inv) |-> [c \in 1..Len(inv[r]) |->
                 Clip(((inv[r][c] - low) * ONE) \div (high - low), 0, ONE)]])
        ELSE inv

\* lines 190-193: stretch between the 0.5th and 99.5th percentiles when
\* high > low
ContrastNormalize(inv) ==
    LET low  == Percentile(Flatten(inv), 5)
        high == Percentile(Flatten(inv), 995)
    IN  IF high > low
        THEN AsArray([r \in 1..Len(inv) |-> [c \in 1..Len(inv[r]) |->
                 Clip(((inv[r][c] - low) * ONE) \div (high - low), 0, ONE)]])
        ELSE inv

\* lines 179-193: the ink field of the combined gradient
InkField(grad) == ContrastNormalize(InvField(grad))

\* the local arrays of compute_edge_map up to the combined gradient
EdgeLocals(img_color) ==
    LET lum_norm == LumNorm(img_color)
        hs       == rgb_to_hs(img_color)
        grad_lum == MapAbs(scharr(lum_norm))
        boost    == compute_hue_boost(hs.h, lum_norm, hs.s)
    IN  [sat |-> hs.s, boost |-> boost, grad_lum |-> grad_lum,
         grad |-> CombineGrad(grad_lum, boost)]

\* compute_edge_map: the raw edge map (an L image) of an RGB image
compute_edge_map(img_color) ==
    float_to_pil(InkField(EdgeLocals(img_color).grad))

(***************************************************************************)
(* LINE NORMALIZATION / EQUALIZER / ULTRA-UNIFORMIZER                      *)
(* (soft_normalize_lines).  arr is the float array, mask the boolean       *)
(* array mask_lines computed once on entry; arr[mask] are the masked       *)
(* cells in row-major order, and arr[mask] = new writes the masked cells   *)
(* only.                                                                   *)
(***************************************************************************)
\* mask_lines = arr < LINE_MASK_THRESH
LineMask(arr) ==
    AsArray([r \in 1..Len(arr) |-> [c \in 1..Len(arr[r]) |->
        arr[r][c] < LINE_MASK_THRESH]])

\* np.any(mask)
AnyTrue(mask) == \E r \in 1..Len(mask) : \E c \in 1..Len(mask[r]) : mask[r][c]

RECURSIVE SelectMasked(_, _)
SelectMasked(vals, flags) ==
    IF vals = <<>> THEN <<>>
    ELSE (IF Head(flags) THEN <<Head(vals)>> ELSE <<>>)
         \o SelectMasked(Tail(vals), Tail(flags))

\* arr[mask]
LineVals(arr, mask) == SelectMasked(Flatten(arr), Flatten(mask))

\* Pass A with the first quartile itself in the strongly brightened class
PassA_Inclusive(arr, mask) ==
    LET line_vals == LineVals(arr, mask)
        q25       == Percentile(line_vals, 250)
        median    == Median(line_vals)
        new(v)    == IF v <= q25
                       THEN v + (LINE_BRIGHTEN_STRONG * (median - v)) \div ONE
                     ELSE IF v < median
                       THEN v + (LINE_BRIGHTEN_SOFT * (median - v)) \div ONE
                     ELSE v
    IN  IF Ge1e4(median - q25)
        THEN AsArray([r \in 1..Len(arr) |-> [c \in 1..Len(arr[r]) |->
             IF mask[r][c] THEN Clip(new(arr[r][c]), 0, ONE) ELSE arr[r][c]]])
        ELSE arr

\* base normalization, lines 212-225
PassA(arr, mask) ==
    LET line_vals == LineVals(arr, mask)
        q25       == Percentile(line_vals, 250)
        median    == Median(line_vals)
        new(v)    == IF v < q25
                       THEN v + (LINE_BRIGHTEN_STRONG * (median - v)) \div ONE
                     ELSE IF v < median
                       THEN v + (LINE_BRIGHTEN_SOFT * (median - v)) \div ONE
                     ELSE v
        clipped(v) == Clip(new(v), 0, ONE)
    IN  IF Ge1e4(median - q25)
        THEN AsArray([r \in 1..Len(arr) |-> [c \in 1..Len(arr[r]) |->
             IF mask[r][c] THEN clipped(arr[r][c]) ELSE arr[r][c]]])
        ELSE arr

\* PassB with a defect: the mapped value is written whether it is brighter
\* or not (the np.where / "brighter" selection is missing)
PassB_Unguarded(arr, mask) ==
    LET line_vals2 == LineVals(arr, mask)
        p_low      == Percentile(line_vals2, BRIGHT_EQ_LOW_PCT)
        p_high     == Percentile(line_vals2, BRIGHT_EQ_HIGH_PCT)
        target_min == BRIGHT_EQ_BASE
        target_max == Max2(BRIGHT_EQ_BASE + BRIGHT_EQ_RANGE,
                           target_min + ONE \div 1000)
        mapped(v)  == Clip(target_min
                           + ((v - p_low) * (target_max - target_min))
                             \div (p_high - p_low), 0, ONE)
    IN  IF Ge1e4(p_high - p_low)
        THEN AsArray([r \in 1..Len(arr) |-> [c \in 1..Len(arr[r]) |->
             IF mask[r][c] THEN mapped(arr[r][c]) ELSE arr[r][c]]])
        ELSE arr

\* brightness equalizer, lines 227-246
PassB(arr, mask) ==
    LET line_vals2 == LineVals(arr, mask)
        p_low      == Percentile(line_vals2, BRIGHT_EQ_LOW_PCT)
        p_high     == Percentile(line_vals2, BRIGHT_EQ_HIGH_PCT)
        target_min == BRIGHT_EQ_BASE
        target_max == Max2(BRIGHT_EQ_BASE + BRIGHT_EQ_RANGE,
                           target_min + ONE \div 1000)
        mapped(v)  == Clip(target_min
                           + ((v - p_low) * (target_max - target_min))
                             \div (p_high - p_low), 0, ONE)
        new(v)     == IF mapped(v) > v THEN mapped(v) ELSE v
    IN  IF ~ENABLE_BRIGHT_EQUALIZER THEN arr
        ELSE IF Ge1e4(p_high - p_low)
        THEN AsArray([r \in 1..Len(arr) |-> [c \in 1..Len(arr[r]) |->
             IF mask[r][c] THEN new(arr[r][c]) ELSE arr[r][c]]])
        ELSE arr

\* PassC with a defect: the lift is applied to the whole array, not to
\* arr[mask_lines]
PassC_Unmasked(arr, mask) ==
    AsArray([r \in 1..Len(arr) |-> [c \in 1..Len(arr[r]) |->
        Clip(Max2(arr[r][c] + GLOBAL_LIFT, MIN_LINE_BRIGHT), 0, ONE)]])

\* PassC without the floor: the lift alone
PassC_NoFloor(arr, mask) ==
    AsArray([r \in 1..Len(arr) |-> [c \in 1..Len(arr[r]) |->
        IF mask[r][c] THEN Clip(arr[r][c] + GLOBAL_LIFT, 0, ONE)
        ELSE arr[r][c]]])

\* global lift, lines 248-253
PassC(arr, mask) ==
    LET new(v) == Clip(Max2(v + GLOBAL_LIFT, MIN_LINE_BRIGHT), 0, ONE)
    IN  IF ~ENABLE_GLOBAL_LIFT THEN arr
        ELSE AsArray([r \in 1..Len(arr) |-> [c \in 1..Len(arr[r]) |->
             IF mask[r][c] THEN new(arr[r][c]) ELSE arr[r][c]]])

\* ultra uniformizer, lines 255-275
PassD(arr, mask) ==
    LET line_vals4 == LineVals(arr, mask)
        p_ultra    == Percentile(line_vals4, ULTRA_LOW_PCT)
        IsLow(v)   == v <= p_ultra
        low_vals   == SelectSeq(line_vals4, IsLow)
        low_min    == SeqMin(low_vals)
        low_max    == SeqMax(low_vals)
        mapped(v)  == IF ~Ge1e4(low_max - low_min)
                        THEN (ULTRA_BAND_MIN + ULTRA_BAND_MAX) \div 2
                      ELSE ULTRA_BAND_MIN
                           + ((v - low_min) * (ULTRA_BAND_MAX - ULTRA_BAND_MIN))
                             \div (low_max - low_min)
        new(v)     == IF IsLow(v) THEN Max2(mapped(v), v) ELSE v
    IN  IF ~ENABLE_ULTRA_UNIFORMIZER THEN arr
        ELSE IF low_vals # <<>>
        THEN AsArray([r \in 1..Len(arr) |-> [c \in 1..Len(arr[r]) |->
             IF mask[r][c] THEN new(arr[r][c]) ELSE arr[r][c]]])
        ELSE arr

\* soft_normalize_lines as one function of the edge image
soft_normalize_lines(edge_img) ==
    LET arr  == GrayToFloat(edge_img)
        mask == LineMask(arr)
    IN  IF ~AnyTrue(mask) THEN edge_img
        ELSE float_to_pil(
                PassD(PassC(PassB(PassA(arr, mask), mask), mask), mask))

(***************************************************************************)
(* RED-GREEN BORDERS                                                       *)
(***************************************************************************)
\* is_red / is_green of one 8-bit RGB cell (0.4 = 4080, 0.12 = 1224)
IsRed(px) ==
    LET R == ToFloat(px[1])
        G == ToFloat(px[2])
        B == ToFloat(px[3])
    IN  R > 4080 /\ R - Max2(G, B) > 1224

IsGreen(px) ==
    LET R == ToFloat(px[1])
        G == ToFloat(px[2])
        B == ToFloat(px[3])
    IN  G > 4080 /\ G - Max2(R, B) > 1224

\* x_min = int(w * RG_MIN_MARGIN_FRAC),
\* x_max = int(w * (1 - RG_MIN_MARGIN_FRAC))
XMin(w) == (w * RG_MIN_MARGIN_FRAC) \div 100

XMax(w) == (w * (100 - RG_MIN_MARGIN_FRAC)) \div 100

\* MatchCount with a defect: the two columns are compared for the same
\* colour (red beside red, green beside green)
MatchCount_SameColour(rgb_img, x) ==
    Cardinality({r \in 1..Len(rgb_img) :
        \/ IsRed(rgb_img[r][x]) /\ IsRed(rgb_img[r][x + 1])
        \/ IsGreen(rgb_img[r][x]) /\ IsGreen(rgb_img[r][x + 1])})

\* match.sum() for source column x (0-based, 1 <= x <= w - 1)
MatchCount(rgb_img, x) ==
    Cardinality({r \in 1..Len(rgb_img) :
        \/ IsRed(rgb_img[r][x]) /\ IsGreen(rgb_img[r][x + 1])
        \/ IsGreen(rgb_img[r][x]) /\ IsRed(rgb_img[r][x + 1])})

\* IsCandidate with a defect: score > RG_MIN_COVERAGE for score >=
IsCandidate_Strict(rgb_img, x) ==
    MatchCount(rgb_img, x) * 100 > RG_MIN_COVERAGE * Len(rgb_img)

\* score >= RG_MIN_COVERAGE with score = match.sum() / float(h)
IsCandidate(rgb_img, x) ==
    MatchCount(rgb_img, x) * 100 >= RG_MIN_COVERAGE * Len(rgb_img)

\* CandidateColumns with the column x_max scanned too
CandidateColumns_ToXMax(rgb_img) ==
    LET w     == Cols(rgb_img)
        x_min == XMin(w)
        x_max == XMax(w)
        xs    == [i \in 1..(x_max - x_min) |-> x_min + i]
        Test(x) == IsCandidate(rgb_img, x)
    IN  IF x_max <= x_min + 1 THEN <<>> ELSE SelectSeq(xs, Test)

\* positions: the candidates of range(x_min + 1, x_max), ascending
CandidateColumns(rgb_img) ==
    LET w     == Cols(rgb_img)
        x_min == XMin(w)
        x_max == XMax(w)
        xs    == [i \in 1..(x_max - x_min - 1) |-> x_min + i]
        Test(x) == IsCandidate(rgb_img, x)
    IN  IF x_max <= x_min + 1 THEN <<>> ELSE SelectSeq(xs, Test)

RECURSIVE GroupRuns_RoundUp(_, _, _, _)
\* GroupRuns with the midpoint rounded up
GroupRuns_RoundUp(rest, start, prev, grouped) ==
    IF rest = <<>> THEN Append(grouped, (start + prev + 1) \div 2)
    ELSE IF Head(rest) = prev + 1
         THEN GroupRuns_RoundUp(Tail(rest), start, Head(rest), grouped)
         ELSE GroupRuns_RoundUp(Tail(rest), Head(rest), Head(rest),
                                Append(grouped, (start + prev + 1) \div 2))

RECURSIVE GroupRuns(_, _, _, _)
\* the grouping loop, lines 319-331
GroupRuns(rest, start, prev, grouped) ==
    IF rest = <<>> THEN Append(grouped, (start + prev) \div 2)
    ELSE IF Head(rest) = prev + 1
         THEN GroupRuns(Tail(rest), start, Head(rest), grouped)
         ELSE GroupRuns(Tail(rest), Head(rest), Head(rest),
                        Append(grouped, (start + prev) \div 2))

detect_vertical_red_green_borders(rgb_img) ==
    LET positions == CandidateColumns(rgb_img)
    IN  IF positions = <<>> THEN <<>>
        ELSE GroupRuns(Tail(positions), positions[1], positions[1], <<>>)

\* SeparatorTarget with a defect: the lower clamp max(0.0, ...) is missing
SeparatorTarget_Unclamped(arr) ==
    LET mask_lines  == LineMask(arr)
        median_line == IF AnyTrue(mask_lines)
                         THEN Median(LineVals(arr, mask_lines))
                       ELSE 3468
    IN  median_line - 51

\* target_val of add_soft_red_green_lines (0.34 = 3468, 0.005 = 51)
SeparatorTarget(arr) ==
    LET mask_lines  == LineMask(arr)
        median_line == IF AnyTrue(mask_lines)
                         THEN Median(LineVals(arr, mask_lines))
                       ELSE 3468
    IN  Max2(0, median_line - 51)

\* the columns cx (0-based) overwritten for the separators `positions`
BandColumns(positions, w) ==
    LET half_w == RG_LINE_WIDTH \div 2
    IN  {Clip(positions[i] + dx, 0, w - 1) :
            i \in 1..Len(positions), dx \in (-half_w)..half_w}

\* add_soft_red_green_lines with a defect: the band is overwritten with
\* target_val itself (arr[:, cx] = target_val), not with the minimum
add_soft_red_green_lines_Overwrite(edge_img, rgb_img) ==
    LET positions  == detect_vertical_red_green_borders(rgb_img)
        arr        == GrayToFloat(edge_img)
        target_val == SeparatorTarget(arr)
        band       == BandColumns(positions, Cols(arr))
    IN  IF positions = <<>> THEN edge_img
        ELSE float_to_pil(
                AsArray([r \in 1..Len(arr) |-> [c \in 1..Len(arr[r]) |->
                    IF (c - 1) \in band THEN target_val
                    ELSE arr[r][c]]]))

add_soft_red_green_lines(edge_img, rgb_img) ==
    LET positions  == detect_vertical_red_green_borders(rgb_img)
        arr        == GrayToFloat(edge_img)
        target_val == SeparatorTarget(arr)
        band       == BandColumns(positions, Cols(arr))
    IN  IF positions = <<>> THEN edge_img
        ELSE float_to_pil(
                AsArray([r \in 1..Len(arr) |-> [c \in 1..Len(arr[r]) |->
                    IF (c - 1) \in band THEN Min2(arr[r][c], target_val)
                    ELSE arr[r][c]]]))

(***************************************************************************)
(* add_border: ImageDraw.rectangle([x0, y0, x1, y1], outline=0, width)     *)
(* with x0 = y0 = offset, x1 = w - 1 - offset, y1 = h - 1 - offset.        *)
(* Pillow from release 9.5 on raises ValueError when x1 < x0 or y1 < y0;   *)
(* earlier releases draw.  The drawing swaps y0 and y1 when y0 > y1 and    *)
(* paints, for i in 0..width-1, the horizontal runs y0 + i and y1 - i      *)
(* between x0 and x1 and the vertical lines x1 - i and x0 + i from         *)
(* y0 + width to y1 - width + 1; a line paints its first end point and not *)
(* its last; cells outside the image are skipped.  Coordinates are         *)
(* 0-based (x, y).  The repository pins no Pillow release.                 *)
(***************************************************************************)
PillowReleases == {"before_9_5", "from_9_5"}

BorderBox(w, h, width_px) ==
    LET offset == width_px \div 2
    IN  [x0 |-> offset, y0 |-> offset,
         x1 |-> w - 1 - offset, y1 |-> h - 1 - offset]

AddBorderRaises(img, width_px, release) ==
    LET b == BorderBox(Cols(img), Rows(img), width_px)
    IN  release = "from_9_5" /\ (b.x1 < b.x0 \/ b.y1 < b.y0)

HLineCells(xa, y, xb) == {<<x, y>> : x \in Min2(xa, xb)..Max2(xa, xb)}

VLineCells(x, ya, yb) ==
    {<<x, y>> : y \in (IF ya <= yb THEN ya..(yb - 1) ELSE (yb + 1)..ya)}

\* the cells (x, y) the rectangle outline paints, before clipping
BorderCells(w, h, width_px) ==
    LET b  == BorderBox(w, h, width_px)
        y0 == Min2(b.y0, b.y1)
        y1 == Max2(b.y0, b.y1)
    IN  UNION {HLineCells(b.x0, y0 + i, b.x1)
               \cup HLineCells(b.x0, y1 - i, b.x1)
               \cup VLineCells(b.x1 - i, y0 + width_px, y1 - width_px + 1)
               \cup VLineCells(b.x0 + i, y0 + width_px, y1 - width_px + 1)
               : i \in 0..(width_px - 1)}

\* add_border with a defect: the frame is put around the image
\* (ImageOps.expand) instead of painted on it
add_border_Expand(img, width_px) ==
    LET h == Rows(img)
        w == Cols(img)
    IN  AsArray([r \in 1..(h + 2 * width_px) |->
                    [c \in 1..(w + 2 * width_px) |->
            IF /\ r > width_px /\ r <= h + width_px
               /\ c > width_px /\ c <= w + width_px
            THEN img[r - width_px][c - width_px] ELSE 0]])

\* add_border: a copy of img with the outline set to 0
add_border(img, width_px) ==
    LET cells == BorderCells(Cols(img), Rows(img), width_px)
    IN  AsArray([r \in 1..Len(img) |-> [c \in 1..Len(img[r]) |->
            IF <<c - 1, r - 1>> \in cells THEN 0 ELSE img[r][c]]])

(***************************************************************************)
(* Pre-filter (line_style.py)                                              *)
(***************************************************************************)
\* Sigma taken from the longer side
Sigma_MaxSide(h, w) == Clip((800 * Max2(h, w)) \div 512, 600, 1800)

\* sigma = clip(0.8 * min(h, w) / 512, 0.6, 1.8), in thousandths
Sigma(h, w) == Clip((800 * Min2(h, w)) \div 512, 600, 1800)

\* the normalised Gaussian weights of skimage.filters.gaussian (truncate 4.0,
\* radius int(4 * sigma + 0.5)) in units of 1/10000, for sigma = 0.6, the
\* sigma of every image with min(h, w) <= 384
GaussWeights(sigma) == CASE sigma = 600 -> <<26, 1655, 6638, 1655, 26>>

\* one pass of the separable filter along axis 0 / axis 1, mode "nearest"
GaussAxis0(a, wts) ==
    LET rad == (Len(wts) - 1) \div 2
        s(r, c, k) == IF k > Len(wts) THEN 0
                      ELSE wts[k] * a[Clip(r + k - 1 - rad, 1, Len(a))][c]
    IN  AsArray([r \in 1..Len(a) |-> [c \in 1..Len(a[r]) |->
            (s(r, c, 1) + s(r, c, 2) + s(r, c, 3) + s(r, c, 4) + s(r, c, 5))
            \div 10000]])

GaussAxis1(a, wts) ==
    LET rad == (Len(wts) - 1) \div 2
        s(r, c, k) == IF k > Len(wts) THEN 0
                      ELSE wts[k] * a[r][Clip(c + k - 1 - rad, 1, Len(a[r]))]
    IN  AsArray([r \in 1..Len(a) |-> [c \in 1..Len(a[r]) |->
            (s(r, c, 1) + s(r, c, 2) + s(r, c, 3) + s(r, c, 4) + s(r, c, 5))
            \div 10000]])

_adaptive_smooth_rgb(img_color) ==
    LET wts == GaussWeights(Sigma(Rows(img_color), Cols(img_color)))
        sm(ch) == GaussAxis1(GaussAxis0(Channel(img_color, ch), wts), wts)
        R == sm(1)
        G == sm(2)
        B == sm(3)
    IN  AsArray([r \in 1..Len(img_color) |-> [c \in 1..Len(img_color[r]) |->
            <<ToUint8(R[r][c]), ToUint8(G[r][c]), ToUint8(B[r][c])>>]])

\* style.strip().lower() on the style strings of the model; None is "none"
StyleNormalized(style) ==
    CASE style = "none"   -> "thin"
      [] style = " Bold " -> "bold"
      [] OTHER            -> style

apply_line_style(img_color, style) ==
    IF StyleNormalized(style) = "bold" THEN _adaptive_smooth_rgb(img_color)
    ELSE img_color

(***************************************************************************)
(* run_edge_pipeline as one function of its arguments, of the module flag  *)
(* ADD_BORDER and of the Pillow release: the stage that raised, if one     *)
(* did, and the image returned.                                            *)
(***************************************************************************)
\* use_border = ADD_BORDER if enable_border is None else enable_border
UseBorder(enable_border, add_border_flag) ==
    IF enable_border = "none" THEN add_border_flag ELSE enable_border = "on"

run_edge_pipeline(img_color, enable_border, add_border_flag, release) ==
    IF ComputeEdgeMapRaises(img_color)
    THEN [raised |-> "compute_edge_map", img |-> <<>>]
    ELSE LET edge == compute_edge_map(img_color)
             eq   == IF LINE_SOFT_NORMALIZE THEN soft_normalize_lines(edge)
                     ELSE edge
             sep  == add_soft_red_green_lines(eq, img_color)
         IN  IF ~UseBorder(enable_border, add_border_flag)
             THEN [raised |-> "", img |-> sep]
             ELSE IF AddBorderRaises(sep, BORDER_WIDTH_PX, release)
             THEN [raised |-> "add_border", img |-> <<>>]
             ELSE [raised |-> "", img |-> add_border(sep, BORDER_WIDTH_PX)]

(***************************************************************************)
(* credits_manager.py with the in-memory store (REDIS_URL unset): the      *)
(* store maps the key of a user to the saved fields.  The counters are     *)
(* saved as str(int(n)) and loaded with int(...), which gives n back for   *)
(* every Python integer; they are integers here.  last_free_refill is a    *)
(* string; None is the string NONE.  A date is the number of the day since *)
(* the day the clock starts in, printed by IsoDate.                        *)
(***************************************************************************)
NONE == "<None>"

MinutesPerDay == 24 * 60

IsoDates ==
    <<"2025-01-01", "2025-01-02", "2025-01-03", "2025-01-04", "2025-01-05",
      "2025-01-06", "2025-01-07", "2025-01-08", "2025-01-09", "2025-01-10">>

\* date.isoformat() of day number d
IsoDate(d) == IsoDates[d + 1]

\* _today_iso_in_target_tz at UTC minute t: the date in Europe/Zurich (UTC
\* offset tz) or, when the zone is not available, the UTC date (tz = 0)
_today_iso_in_target_tz(t, tz) == IsoDate((t + tz) \div MinutesPerDay)

_make_key(user_id) == "ew:user:" \o user_id

\* data.get(field, default) on the saved fields of a key, {} when absent
_load_user_record(store, user_id) ==
    LET key == _make_key(user_id)
    IN  IF key \in DOMAIN store
        THEN [paid_credits     |-> store[key].paid_credits,
              free_credits     |-> store[key].free_credits,
              last_free_refill |-> store[key].last_free_refill]
        ELSE [paid_credits |-> 0, free_credits |-> 0,
              last_free_refill |-> NONE]

\* the store after _save_user_record: last_free_refill "or ''"
_save_user_record(store, user_id, record) ==
    LET key  == _make_key(user_id)
        data == [paid_credits     |-> record.paid_credits,
                 free_credits     |-> record.free_credits,
                 last_free_refill |->
                     IF record.last_free_refill \in {NONE, ""} THEN ""
                     ELSE record.last_free_refill]
    IN  [k \in DOMAIN store \cup {key} |-> IF k = key THEN data ELSE store[k]]

\* free credits granted by a refill (line 123)
FREE_REFILL == 5

\* refresh_free_credits with a defect: the refill is added to the leftover
refresh_free_credits_Stacking(store, user_id, today) ==
    LET loaded == _load_user_record(store, user_id)
        record == IF loaded.paid_credits = 0
                     /\ loaded.last_free_refill # today
                  THEN [loaded EXCEPT !.free_credits = @ + FREE_REFILL,
                                      !.last_free_refill = today]
                  ELSE loaded
    IN  [store  |-> _save_user_record(store, user_id, record),
         record |-> record]

\* refresh_free_credits with a defect: the date of the refill is not
\* recorded
refresh_free_credits_Undated(store, user_id, today) ==
    LET loaded == _load_user_record(store, user_id)
        record == IF loaded.paid_credits = 0
                     /\ loaded.last_free_refill # today
                  THEN [loaded EXCEPT !.free_credits = FREE_REFILL]
                  ELSE loaded
    IN  [store  |-> _save_user_record(store, user_id, record),
         record |-> record]

\* refresh_free_credits: the store after the call and the record returned
refresh_free_credits(store, user_id, today) ==
    LET loaded == _load_user_record(store, user_id)
        record == IF loaded.paid_credits = 0
                     /\ loaded.last_free_refill # today
                  THEN [loaded EXCEPT !.free_credits = FREE_REFILL,
                                      !.last_free_refill = today]
                  ELSE loaded
    IN  [store  |-> _save_user_record(store, user_id, record),
         record |-> record]

\* consume_credit_or_fail with a defect: free credits are spent first
consume_credit_or_fail_FreeFirst(store, user_id, today) ==
    LET ref  == refresh_free_credits(store, user_id, today)
        paid == ref.record.paid_credits
        free == ref.record.free_credits
        record == IF free > 0
                  THEN [ref.record EXCEPT !.free_credits = free - 1]
                  ELSE [ref.record EXCEPT !.paid_credits = paid - 1]
    IN  IF paid <= 0 /\ free <= 0
        THEN [raised |-> "NoCreditsError", store |-> ref.store,
              record |-> ref.record]
        ELSE [raised |-> "",
              store  |-> _save_user_record(ref.store, user_id, record),
              record |-> record]

\* consume_credit_or_fail: what it raises ("" when it returns), the store
\* after the call and the record
consume_credit_or_fail(store, user_id, today) ==
    LET ref  == refresh_free_credits(store, user_id, today)
        paid == ref.record.paid_credits
        free == ref.record.free_credits
        record == IF paid > 0
                  THEN [ref.record EXCEPT !.paid_credits = paid - 1]
                  ELSE [ref.record EXCEPT
                           !.free_credits = Max2(free - 1, 0)]
    IN  IF paid <= 0 /\ free <= 0
        THEN [raised |-> "NoCreditsError", store |-> ref.store,
              record |-> ref.record]
        ELSE [raised |-> "",
              store  |-> _save_user_record(ref.store, user_id, record),
              record |-> record]

\* get_credit_status: the store after the call and the status returned
get_credit_status(store, user_id, today) ==
    LET ref == refresh_free_credits(store, user_id, today)
    IN  [store  |-> ref.store,
         record |-> [paid_credits  |-> ref.record.paid_credits,
                     free_credits  |-> ref.record.free_credits,
                     total_credits |-> ref.record.paid_credits
                                       + ref.record.free_credits]]

\* add_paid_credits with a defect: the guard amount <= 0 is missing
add_paid_credits_Unguarded(store, user_id, amount, today) ==
    LET loaded == _load_user_record(store, user_id)
        record == [loaded EXCEPT !.paid_credits = @ + amount]
    IN  [store  |-> _save_user_record(store, user_id, record),
         record |-> record]

\* add_paid_credits: the store after the call and the record returned
add_paid_credits(store, user_id, amount, today) ==
    IF amount <= 0 THEN get_credit_status(store, user_id, today)
    ELSE LET loaded == _load_user_record(store, user_id)
             record == [loaded EXCEPT !.paid_credits = @ + amount]
         IN  [store  |-> _save_user_record(store, user_id, record),
              record |-> record]

(***************************************************************************)
(* auth.py with the in-memory stores (USE_FAKE_REDIS defaults to "1").     *)
(* A datetime is the number of minutes on the clock now; isoformat and     *)
(* fromisoformat give it back unchanged.  An e-mail address is the tuple   *)
(* of its characters.  A password hash verifies for the password hashed    *)
(* and for no other.  An access token is the JWT payload with the party    *)
(* that signed it: jwt.decode accepts the signature of JWT_SECRET_KEY      *)
(* only.  A password reset token is the serial number of its minting:      *)
(* secrets.token_urlsafe(32) never gives the same token twice.             *)
(***************************************************************************)
\* None in a datetime field
NoTime == -1

\* None where a user is expected
NoUser == [user_id |-> NONE]

ACCESS_TOKEN_EXPIRE_MINUTES == 10080

PASSWORD_RESET_TOKEN_EXPIRE_MINUTES == 30

\* email.strip().lower()
NormalizeEmail(email) ==
    LET RECURSIVE LStrip(_), RStrip(_)
        LStrip(s) == IF s # <<>> /\ Head(s) = " " THEN LStrip(Tail(s)) ELSE s
        RStrip(s) == IF s # <<>> /\ s[Len(s)] = " "
                     THEN RStrip(SubSeq(s, 1, Len(s) - 1)) ELSE s
        Lower(ch) == IF ch = "A" THEN "a" ELSE IF ch = "B" THEN "b" ELSE ch
        stripped  == LStrip(RStrip(email))
    IN  [i \in 1..Len(stripped) |-> Lower(stripped[i])]

hash_password(password) == "$pbkdf2-sha256$" \o password

verify_password(plain_password, password_hash) ==
    password_hash = hash_password(plain_password)

\* the JWT of create_access_token(data, expires_delta) encoded at time t
create_access_token(sub, t, expires_delta) ==
    [sub |-> sub, exp |-> t + expires_delta, sig |-> "JWT_SECRET_KEY", n |-> 0]

\* jwt.decode raises JWTError: a signature of another key, or exp passed
JWTError(token, t) == token.sig # "JWT_SECRET_KEY" \/ token.exp < t

get_user_by_id(users, user_id) ==
    IF user_id \in DOMAIN users THEN users[user_id] ELSE NoUser

get_user_by_email(users, emails, email) ==
    LET email_normalized == NormalizeEmail(email)
    IN  IF email_normalized \in DOMAIN emails
        THEN get_user_by_id(users, emails[email_normalized])
        ELSE NoUser

\* the two stores after save_user(user)
save_user(users, emails, user) ==
    LET key == NormalizeEmail(user.email)
    IN  [users  |-> [k \in DOMAIN users \cup {user.user_id} |->
                        IF k = user.user_id THEN user ELSE users[k]],
         emails |-> [k \in DOMAIN emails \cup {key} |->
                        IF k = key THEN user.user_id ELSE emails[k]]]

\* create_user: ValueError when the address is taken, else the user saved
\* under the fresh user_id
create_user(users, emails, email, password, user_id, t) ==
    IF get_user_by_email(users, emails, email) # NoUser
    THEN [raised |-> "ValueError", user |-> NoUser,
          users |-> users, emails |-> emails]
    ELSE LET user  == [user_id            |-> user_id,
                       email              |-> NormalizeEmail(email),
                       password_hash      |-> hash_password(password),
                       created_at         |-> t,
                       last_login         |-> t,
                       deleted_at         |-> NoTime,
                       stripe_customer_id |-> NONE]
             saved == save_user(users, emails, user)
         IN  [raised |-> "", user |-> user,
              users |-> saved.users, emails |-> saved.emails]

\* the token store after create_password_reset_token_for_user gave token
create_password_reset_token_for_user(tokens, user, token, t) ==
    [k \in DOMAIN tokens \cup {token} |->
        IF k = token
        THEN [user_id    |-> user.user_id,
              expires_at |-> t + PASSWORD_RESET_TOKEN_EXPIRE_MINUTES]
        ELSE tokens[k]]

\* delete_password_reset_token leaving the token where it is
delete_password_reset_token_Keep(tokens, token) == tokens

\* the token store without token: _password_reset_tokens.pop(token, None)
delete_password_reset_token(tokens, token) ==
    [k \in DOMAIN tokens \ {token} |-> tokens[k]]

\* the user_id of the token, None when unknown or expired; an expired
\* token is removed
get_user_id_by_password_reset_token(tokens, token, t) ==
    IF token \notin DOMAIN tokens
    THEN [user_id |-> NONE, tokens |-> tokens]
    ELSE IF t > tokens[token].expires_at
    THEN [user_id |-> NONE,
          tokens  |-> delete_password_reset_token(tokens, token)]
    ELSE [user_id |-> tokens[token].user_id, tokens |-> tokens]

\* get_current_user without the check of deleted_at
get_current_user_Unchecked(users, token, t) ==
    IF JWTError(token, t) THEN [status |-> 401, user |-> NoUser]
    ELSE [status |-> IF get_user_by_id(users, token.sub) = NoUser
                     THEN 401 ELSE 200,
          user |-> get_user_by_id(users, token.sub)]

\* the dependency get_current_user: the status raised (200 when none is)
\* and the user returned
get_current_user(users, token, t) ==
    IF JWTError(token, t) THEN [status |-> 401, user |-> NoUser]
    ELSE LET user == get_user_by_id(users, token.sub)
         IN  IF user = NoUser THEN [status |-> 401, user |-> NoUser]
             ELSE IF user.deleted_at # NoTime
             THEN [status |-> 403, user |-> NoUser]
             ELSE [status |-> 200, user |-> user]

\* credits_manager.py defines no clear_all_credits (its functions are
\* lines 29-181), so the name imported at auth.py line 15 is bound to no
\* function: the call raises and no record is written
clear_all_credits(store, user_id) ==
    [raised |-> "NameError", store |-> store]

(***************************************************************************)
(* billing.py: the plans and the credits they carry.                       *)
(***************************************************************************)
PLAN_CONFIG ==
    [bronze |-> [credits |-> 50],
     silver |-> [credits |-> 250],
     gold   |-> [credits |-> 500]]

\* stripe.Webhook.construct_event: the exception raised, "" when the
\* header carries the signature of STRIPE_WEBHOOK_SECRET over the payload
construct_event(payload, sig_header) ==
    IF sig_header # "STRIPE_WEBHOOK_SECRET" THEN "SignatureVerificationError"
    ELSE ""

(***************************************************************************)
(* State.  ADD_BORDER is the module-level flag of edgewizard_pipeline.py,  *)
(* pillow the Pillow release of the build.  frame[i] is the activation of  *)
(* invocation i: its arguments, its locals and its position pc; the fields *)
(* pass_in, eq_in, eq_out, sep_in, noborder and trace record what a stage  *)
(* was given and which stages ran.                                         *)
(*                                                                         *)
(* The service around the pipeline: now is the UTC clock in minutes and    *)
(* tz_minutes the UTC offset _today_iso_in_target_tz works with;           *)
(* _in_memory_store is the credit store of credits_manager.py;             *)
(* _user_store, _email_to_user_id and _password_reset_tokens are the       *)
(* stores of auth.py; issued holds the access tokens handed to clients and *)
(* the password reset tokens minted;                                       *)
(* last_call is the last call or request completed, its arguments, the     *)
(* state it started in and its outcome.                                    *)
(***************************************************************************)
VARIABLES ADD_BORDER, pillow, frame

VARIABLES now, tz_minutes, _in_memory_store, _user_store,
          _email_to_user_id, _password_reset_tokens, issued, last_call

\* worker[w] is the call of a credit function that worker process w is in,
\* between two commands on the store; ledger counts the credits granted by
\* the calls of add_paid_credits that have returned, the free credits of
\* the day's refill (counted once: free credits do not stack) and the calls
\* of consume_credit_or_fail that have returned a record, and keeps whether
\* a call was ever started while another was in flight
VARIABLES worker, ledger

\* the keyspace of the Redis server at REDIS_URL, which auth.py (with
\* USE_FAKE_REDIS=0) and credits_manager.py both connect to: each key holds
\* a string (SET) or a hash (HSET)
VARIABLE redis

pipeline == <<ADD_BORDER, pillow, frame>>

service == <<now, tz_minutes, _in_memory_store, _user_store,
             _email_to_user_id, _password_reset_tokens, issued, last_call,
             worker, ledger, redis>>

vars == <<ADD_BORDER, pillow, frame, now, tz_minutes, _in_memory_store,
          _user_store, _email_to_user_id, _password_reset_tokens, issued,
          last_call, worker, ledger, redis>>

\* the empty dict {}
EmptyDict == [k \in {} |-> 0]

NoCall == [op |-> "none"]

\* number of worker processes of the model
NWorkers == 2

Workers == 1..NWorkers

\* a worker between two requests
IdleWorker ==
    [pc |-> "idle", op |-> "none", user_id |-> "", amount |-> 0,
     record |-> [paid_credits |-> 0, free_credits |-> 0,
                 last_free_refill |-> ""],
     calls |-> 0]

NoLedger == [granted |-> 0, refilled |-> 0, consumed |-> 0,
             overlapped |-> FALSE]

\* the stores after import, before any request
StoresAtImport ==
    /\ _in_memory_store = EmptyDict
    /\ _user_store = EmptyDict
    /\ _email_to_user_id = EmptyDict
    /\ _password_reset_tokens = EmptyDict
    /\ issued = {}
    /\ last_call = NoCall
    /\ worker = [w \in Workers |-> IdleWorker]
    /\ ledger = NoLedger
    /\ redis = EmptyDict

\* the service at rest while the pipeline alone is looked at
ServiceIdle == StoresAtImport /\ now = 0 /\ tz_minutes = 0

\* number of invocations of the model
NInv == 2

Inv == 1..NInv

NoLocals == [sat |-> <<>>, boost |-> <<>>, grad_lum |-> <<>>, grad |-> <<>>]

NewFrame(at, img, style, enable_border) ==
    [pc |-> at, img_in |-> img, style |-> style,
     enable_border |-> enable_border, img_color |-> <<>>, edge_img |-> <<>>,
     locals |-> NoLocals, arr |-> <<>>, mask_lines |-> <<>>,
     pass_in |-> <<>>, eq_in |-> <<>>, eq_out |-> <<>>, sep_in |-> <<>>,
     positions |-> <<>>, target_val |-> -1, noborder |-> <<>>,
     raised |-> "", trace |-> <<>>, shape |-> <<>>, sigma |-> -1]

IdleFrame == NewFrame("idle", <<>>, "none", "none")

\* an activation entered at stage `at` with the colour image rgb_img and
\* the edge image edge_img in hand
EntryFrame(at, rgb_img, edge_img, enable_border) ==
    [NewFrame(at, rgb_img, "none", enable_border)
        EXCEPT !.img_color = rgb_img, !.edge_img = edge_img]

\* RunEdgePipelineNext with a defect: the separator injection is called
\* before the equalizer
RunEdgePipelineNext_Reordered(at) ==
    CASE at = "edge_map"  -> "separator"
      [] at = "separator" -> "normalize"
      [] at = "normalize" -> "border"
      [] at = "border"    -> "done"

\* the control flow of run_edge_pipeline: the position after stage `at`
RunEdgePipelineNext(at) ==
    CASE at = "edge_map"  -> IF LINE_SOFT_NORMALIZE THEN "normalize"
                             ELSE "separator"
      [] at = "normalize" -> "separator"
      [] at = "separator" -> "border"
      [] at = "border"    -> "done"

(***************************************************************************)
(* Actions: one per stage of an invocation                                 *)
(***************************************************************************)
\* line_style.apply_line_style applied by the caller to the image it then
\* passes to run_edge_pipeline (main.py, line 73, passes the decoded image
\* as it is: the call with style None)
ApplyLineStyle(i) ==
    /\ frame[i].pc = "prefilter"
    /\ frame' = [frame EXCEPT ![i] =
          [@ EXCEPT !.pc = "edge_map",
                    !.img_color = apply_line_style(frame[i].img_in,
                                                  frame[i].style),
                    !.trace = Append(@, "prefilter")]]
    /\ UNCHANGED <<ADD_BORDER, pillow, service>>

\* img_color.convert("RGB") of an RGB image, then compute_edge_map
ComputeEdgeMap(i) ==
    /\ frame[i].pc = "edge_map"
    /\ LET loc == EdgeLocals(frame[i].img_color)
       IN  frame' = [frame EXCEPT ![i] =
             IF ComputeEdgeMapRaises(@.img_color)
             THEN [@ EXCEPT !.pc = "error", !.raised = "compute_edge_map",
                            !.trace = Append(@, "edge_map")]
             ELSE [@ EXCEPT !.pc = RunEdgePipelineNext("edge_map"),
                            !.locals = loc,
                            !.edge_img = float_to_pil(InkField(loc.grad)),
                            !.trace = Append(@, "edge_map")]]
    /\ UNCHANGED <<ADD_BORDER, pillow, service>>

\* soft_normalize_lines, lines 204-210: the early return, or the passes
SoftNormalizeEnter(i) ==
    /\ frame[i].pc = "normalize"
    /\ LET arr  == GrayToFloat(frame[i].edge_img)
           mask == LineMask(arr)
       IN  frame' = [frame EXCEPT ![i] =
             IF ~AnyTrue(mask)
             THEN [@ EXCEPT !.pc = RunEdgePipelineNext("normalize"),
                            !.eq_in = frame[i].edge_img,
                            !.eq_out = frame[i].edge_img,
                            !.arr = arr, !.mask_lines = mask,
                            !.trace = Append(@, "normalize")]
             ELSE [@ EXCEPT !.pc = "passA",
                            !.eq_in = frame[i].edge_img,
                            !.arr = arr, !.mask_lines = mask,
                            !.trace = Append(@, "normalize")]]
    /\ UNCHANGED <<ADD_BORDER, pillow, service>>

\* base normalization, lines 212-225
StepPassA(i) ==
    /\ frame[i].pc = "passA"
    /\ frame' = [frame EXCEPT ![i] =
          [@ EXCEPT !.pc = "passB",
                    !.pass_in = frame[i].arr,
                    !.arr = PassA(frame[i].arr, frame[i].mask_lines),
                    !.trace = Append(@, "passA")]]
    /\ UNCHANGED <<ADD_BORDER, pillow, service>>

\* brightness equalizer, lines 227-246
StepPassB(i) ==
    /\ frame[i].pc = "passB"
    /\ frame' = [frame EXCEPT ![i] =
          [@ EXCEPT !.pc = "passC",
                    !.pass_in = frame[i].arr,
                    !.arr = PassB(frame[i].arr, frame[i].mask_lines),
                    !.trace = Append(@, "passB")]]
    /\ UNCHANGED <<ADD_BORDER, pillow, service>>

\* global lift, lines 248-253
StepPassC(i) ==
    /\ frame[i].pc = "passC"
    /\ frame' = [frame EXCEPT ![i] =
          [@ EXCEPT !.pc = "passD",
                    !.pass_in = frame[i].arr,
                    !.arr = PassC(frame[i].arr, frame[i].mask_lines),
                    !.trace = Append(@, "passC")]]
    /\ UNCHANGED <<ADD_BORDER, pillow, service>>

\* StepPassD with the line mask taken again from the current values
StepPassD_Remask(i) ==
    /\ frame[i].pc = "passD"
    /\ frame' = [frame EXCEPT ![i] =
          [@ EXCEPT !.pc = "eq_return",
                    !.pass_in = frame[i].arr,
                    !.arr = PassD(frame[i].arr, LineMask(frame[i].arr)),
                    !.trace = Append(@, "passD")]]
    /\ UNCHANGED <<ADD_BORDER, pillow, service>>

\* ultra uniformizer, lines 255-275
StepPassD(i) ==
    /\ frame[i].pc = "passD"
    /\ frame' = [frame EXCEPT ![i] =
          [@ EXCEPT !.pc = "eq_return",
                    !.pass_in = frame[i].arr,
                    !.arr = PassD(frame[i].arr, frame[i].mask_lines),
                    !.trace = Append(@, "passD")]]
    /\ UNCHANGED <<ADD_BORDER, pillow, service>>

\* return float_to_pil(arr)
SoftNormalizeReturn(i) ==
    /\ frame[i].pc = "eq_return"
    /\ frame' = [frame EXCEPT ![i] =
          [@ EXCEPT !.pc = RunEdgePipelineNext("normalize"),
                    !.edge_img = float_to_pil(frame[i].arr),
                    !.eq_out = float_to_pil(frame[i].arr),
                    !.trace = Append(@, "eq_return")]]
    /\ UNCHANGED <<ADD_BORDER, pillow, service>>

AddSoftRedGreenLines(i) ==
    /\ frame[i].pc = "separator"
    /\ frame' = [frame EXCEPT ![i] =
          [@ EXCEPT !.pc = RunEdgePipelineNext("separator"),
                    !.sep_in = frame[i].edge_img,
                    !.positions =
                        detect_vertical_red_green_borders(frame[i].img_color),
                    !.target_val =
                        IF detect_vertical_red_green_borders(
                               frame[i].img_color) = <<>>
                        THEN @
                        ELSE SeparatorTarget(GrayToFloat(frame[i].edge_img)),
                    !.edge_img = add_soft_red_green_lines(frame[i].edge_img,
                                                          frame[i].img_color),
                    !.trace = Append(@, "separator")]]
    /\ UNCHANGED <<ADD_BORDER, pillow, service>>

\* AddBorder with a defect: the decision use_border is stored in the module
\* flag (global ADD_BORDER; ADD_BORDER = use_border)
AddBorder_Leaky(i) ==
    /\ frame[i].pc = "border"
    /\ frame' = [frame EXCEPT ![i] =
          IF ~UseBorder(@.enable_border, ADD_BORDER)
          THEN [@ EXCEPT !.pc = RunEdgePipelineNext("border"),
                         !.noborder = frame[i].edge_img]
          ELSE IF AddBorderRaises(@.edge_img, BORDER_WIDTH_PX, pillow)
          THEN [@ EXCEPT !.pc = "error", !.raised = "add_border",
                         !.noborder = frame[i].edge_img,
                         !.trace = Append(@, "border")]
          ELSE [@ EXCEPT !.pc = RunEdgePipelineNext("border"),
                         !.noborder = frame[i].edge_img,
                         !.edge_img = add_border(frame[i].edge_img,
                                                 BORDER_WIDTH_PX),
                         !.trace = Append(@, "border")]]
    /\ ADD_BORDER' = UseBorder(frame[i].enable_border, ADD_BORDER)
    /\ UNCHANGED <<pillow, service>>

\* lines 388-392: the optional frame, then the return
AddBorder(i) ==
    /\ frame[i].pc = "border"
    /\ frame' = [frame EXCEPT ![i] =
          IF ~UseBorder(@.enable_border, ADD_BORDER)
          THEN [@ EXCEPT !.pc = RunEdgePipelineNext("border"),
                         !.noborder = frame[i].edge_img]
          ELSE IF AddBorderRaises(@.edge_img, BORDER_WIDTH_PX, pillow)
          THEN [@ EXCEPT !.pc = "error", !.raised = "add_border",
                         !.noborder = frame[i].edge_img,
                         !.trace = Append(@, "border")]
          ELSE [@ EXCEPT !.pc = RunEdgePipelineNext("border"),
                         !.noborder = frame[i].edge_img,
                         !.edge_img = add_border(frame[i].edge_img,
                                                 BORDER_WIDTH_PX),
                         !.trace = Append(@, "border")]]
    /\ UNCHANGED <<ADD_BORDER, pillow, service>>

(***************************************************************************)
(* Inputs.  A stripe image has, in rows 1..k, the colour cA in columns     *)
(* 1..xa, cB in columns xa+1..xb and cC in the rest; the rows below k have *)
(* the colour cC throughout.  A block image has two colours.               *)
(***************************************************************************)
RED     == <<255, 0, 0>>
GREEN   == <<0, 255, 0>>
\* a green of the luminance of RED, too dark to be classified green
DKGREEN == <<0, 76, 0>>
GRAY    == <<128, 128, 128>>
BLACK   == <<0, 0, 0>>

Palette == {RED, GREEN, DKGREEN, GRAY, BLACK}

StripeImage(h, w, xa, xb, k, cA, cB, cC) ==
    AsArray([r \in 1..h |-> [c \in 1..w |->
        IF r > k THEN cC
        ELSE IF c <= xa THEN cA
        ELSE IF c <= xb THEN cB
        ELSE cC]])

BlockImage(h, w, x0, k, cL, cR) == StripeImage(h, w, x0, w, k, cL, cR, cR)

\* an h x w L image of the one value v
FlatGray(h, w, v) == AsArray([r \in 1..h |-> [c \in 1..w |-> v]])

MaxH == 3
MaxW == 4

PipelineImages ==
    {BlockImage(h, w, x0, k, cL, cR) :
        h \in 1..MaxH, w \in 1..MaxW, x0 \in 0..(MaxW - 1), k \in 1..MaxH,
        cL \in Palette, cR \in Palette}

\* the (style, enable_border) arguments of the calls of the model
CallOptions == {<<"none", "none">>, <<"thin", "off">>, <<" Bold ", "on">>}

\* ADD_BORDER = False, line 39
ADD_BORDER_AT_IMPORT == FALSE

\* the state after import, no call yet
InitBuild ==
    /\ ADD_BORDER = ADD_BORDER_AT_IMPORT
    /\ pillow \in PillowReleases
    /\ ServiceIdle

InitPipeline ==
    /\ InitBuild
    /\ \E img \in PipelineImages, opt \in CallOptions :
          frame = [i \in Inv |->
                     IF i = 1 THEN NewFrame("prefilter", img, opt[1], opt[2])
                     ELSE IdleFrame]

Next ==
    \E i \in Inv :
        \/ ApplyLineStyle(i)
        \/ ComputeEdgeMap(i)
        \/ SoftNormalizeEnter(i)
        \/ StepPassA(i)
        \/ StepPassB(i)
        \/ StepPassC(i)
        \/ StepPassD(i)
        \/ SoftNormalizeReturn(i)
        \/ AddSoftRedGreenLines(i)
        \/ AddBorder(i)

\* one invocation of the whole pipeline on a block image
Spec == InitPipeline /\ [][Next]_vars

(***************************************************************************)
(* soft_normalize_lines alone, on every L image of at most MaxEqN pixels   *)
(* (one row, or two rows of equal length) over the levels EqLevels:        *)
(* 251/255 is the last value below LINE_MASK_THRESH, 252/255 the first     *)
(* background value.  With fewer than 11 line values the 10th percentile   *)
(* lies below the second smallest one and the darkest decile of Pass D     *)
(* has no spread, so rows of EqLongN pixels made of three runs of one      *)
(* level each are added.                                                   *)
(***************************************************************************)
MaxEqN == 5

EqLongN == 11

EqLevels == {0, 40, 90, 251, 252, 255}

EqRunImages ==
    {[r \in 1..1 |-> [c \in 1..EqLongN |->
         IF c <= k1 THEN a ELSE IF c <= k2 THEN b ELSE d]] :
       k1 \in 1..(EqLongN - 2), k2 \in 2..(EqLongN - 1),
       a \in EqLevels, b \in EqLevels, d \in EqLevels}

EqImages ==
    UNION {[1..1 -> [1..n -> EqLevels]] : n \in 1..MaxEqN}
    \cup UNION {[1..2 -> [1..m -> EqLevels]] : m \in 1..(MaxEqN \div 2)}
    \cup EqRunImages

InitEq ==
    /\ InitBuild
    /\ \E img \in EqImages :
          frame = [i \in Inv |->
                     IF i = 1
                     THEN EntryFrame("normalize", <<>>, AsArray(img), "none")
                     ELSE IdleFrame]

NextEq ==
    \E i \in Inv :
        \/ SoftNormalizeEnter(i)
        \/ StepPassA(i)
        \/ StepPassB(i)
        \/ StepPassC(i)
        \/ StepPassD(i)
        \/ SoftNormalizeReturn(i)

SpecEq == InitEq /\ [][NextEq]_vars

(***************************************************************************)
(* The separator stage alone, on stripe images over red, green and gray:   *)
(* narrow ones of every width up to MaxDetW, and ones of width WideW,      *)
(* where the margin x_min is a whole column.  The edge image handed in is  *)
(* blank paper.                                                            *)
(***************************************************************************)
MaxDetH == 5
MaxDetW == 6
WideW == 50

DetPalette == {RED, GREEN, GRAY}

\* an image whose column c has the colour cols[c] in its first k rows and is
\* gray below: every pattern of neighbouring candidate columns
ColumnImage(h, k, cols) ==
    AsArray([r \in 1..h |-> [c \in 1..Len(cols) |->
        IF r <= k THEN cols[c] ELSE GRAY]])

DetImages ==
    {StripeImage(h, w, xa, xb, k, cA, cB, cC) :
        h \in 1..MaxDetH, w \in 2..MaxDetW, xa \in 1..(MaxDetW - 1),
        xb \in {2, MaxDetW}, k \in 1..MaxDetH,
        cA \in {RED, GREEN}, cB \in DetPalette, cC \in DetPalette}
    \cup
    {BlockImage(h, WideW, x0, k, cL, cR) :
        h \in {1, MaxDetH - 1}, x0 \in 1..(WideW - 1), k \in 1..2,
        cL \in {RED, GREEN}, cR \in {RED, GREEN}}
    \cup
    {ColumnImage(h, k, cols) :
        h \in {1, MaxDetH - 1}, k \in 1..(MaxDetH - 1),
        cols \in UNION {[1..w -> DetPalette] : w \in 2..MaxDetW}}

InitDet ==
    /\ InitBuild
    /\ \E img \in DetImages :
          frame = [i \in Inv |->
                     IF i = 1
                     THEN EntryFrame("separator", img,
                                     FlatGray(Rows(img), Cols(img), 255),
                                     "none")
                     ELSE IdleFrame]

NextDet == \E i \in Inv : AddSoftRedGreenLines(i)

SpecDet == InitDet /\ [][NextDet]_vars

(***************************************************************************)
(* The frame stage alone, on flat L images of every size up to             *)
(* MaxBorderSide in each direction, for each value of enable_border.       *)
(***************************************************************************)
MaxBorderSide == 7

BorderOptions == {"none", "off", "on"}

InitBorder ==
    /\ InitBuild
    /\ \E h \in 1..MaxBorderSide, w \in 1..MaxBorderSide,
          v \in {200, 255}, opt \in BorderOptions :
          frame = [i \in Inv |->
                     IF i = 1
                     THEN EntryFrame("border", <<>>, FlatGray(h, w, v), opt)
                     ELSE IdleFrame]

NextBorder == \E i \in Inv : AddBorder(i)

SpecBorder == InitBorder /\ [][NextBorder]_vars

(***************************************************************************)
(* NInv invocations at once, their stages interleaved, each on one of the  *)
(* calls ConcCalls.                                                        *)
(***************************************************************************)
ConcImages ==
    {BlockImage(3, 3, 1, 2, RED, GREEN), BlockImage(1, 1, 0, 1, GRAY, GRAY)}

ConcCalls == {<<img, opt>> : img \in ConcImages,
                             opt \in {<<"none", "none">>, <<"thin", "on">>}}

InitConc ==
    /\ InitBuild
    /\ \E call \in [Inv -> ConcCalls] :
          frame = [i \in Inv |->
                     NewFrame("prefilter", call[i][1], call[i][2][1],
                              call[i][2][2])]

SpecConc == InitConc /\ [][Next]_vars

(***************************************************************************)
(* The separator stage on edge images with content: every RGB image over   *)
(* red and green of up to MaxInjN pixels (one row, or two rows of equal    *)
(* length), with every L image of the same shape over InjLevels handed in  *)
(* as the edge image.                                                      *)
(***************************************************************************)
MaxInjN == 4

InjLevels == {0, 86, 200, 255}

InjShapes ==
    {<<1, n>> : n \in 2..MaxInjN} \cup {<<2, m>> : m \in 2..(MaxInjN \div 2)}

InitInj ==
    /\ InitBuild
    /\ \E sh \in InjShapes :
       \E rgb \in [1..sh[1] -> [1..sh[2] -> {RED, GREEN}]] :
       \E edge \in [1..sh[1] -> [1..sh[2] -> InjLevels]] :
          frame = [i \in Inv |->
                     IF i = 1
                     THEN EntryFrame("separator", AsArray(rgb),
                                     AsArray(edge), "none")
                     ELSE IdleFrame]

NextInj == \E i \in Inv : AddSoftRedGreenLines(i)

SpecInj == InitInj /\ [][NextInj]_vars

(***************************************************************************)
(* The contrast normalizer alone (compute_edge_map, lines 190-195), on     *)
(* every ink field of one row of at most MaxNormN values over NormLevels.  *)
(* Neighbouring levels are one unit of 1/ONE apart, which is just under    *)
(* 1e-4: the field [5000, 5002] has the percentiles 5000 and 5001.         *)
(***************************************************************************)
MaxNormN == 4

NormLevels == {0, 5000, 5001, 5002, ONE}

StretchContrast(i) ==
    /\ frame[i].pc = "stretch"
    /\ frame' = [frame EXCEPT ![i] =
          [@ EXCEPT !.pc = "stretched",
                    !.pass_in = frame[i].arr,
                    !.arr = ContrastNormalize(frame[i].arr),
                    !.edge_img = float_to_pil(ContrastNormalize(frame[i].arr)),
                    !.trace = Append(@, "stretch")]]
    /\ UNCHANGED <<ADD_BORDER, pillow, service>>

InitNorm ==
    /\ InitBuild
    /\ \E n \in 1..MaxNormN : \E inv \in [1..1 -> [1..n -> NormLevels]] :
          frame = [i \in Inv |->
                     IF i = 1
                     THEN [NewFrame("stretch", <<>>, "none", "none")
                              EXCEPT !.arr = AsArray(inv)]
                     ELSE IdleFrame]

NextNorm == \E i \in Inv : StretchContrast(i)

SpecNorm == InitNorm /\ [][NextNorm]_vars

(***************************************************************************)
(* The smoothing sigma of the bold style alone (_adaptive_smooth_rgb,      *)
(* lines 47-53).  An image of a realistic size is held by its shape only;  *)
(* two invocations run, so that the sigmas of two renders can be compared. *)
(* SigmaSides has the sides next to 384 = 0.6 * 512 / 0.8 and to           *)
(* 1152 = 1.8 * 512 / 0.8.                                                 *)
(***************************************************************************)
SigmaSides == {1, 383, 384, 385, 768, 1151, 1152, 1153, 4096}

AdaptiveSigma(i) ==
    /\ frame[i].pc = "sigma"
    /\ frame' = [frame EXCEPT ![i] =
          [@ EXCEPT !.pc = "smoothing",
                    !.sigma = Sigma(frame[i].shape[1], frame[i].shape[2]),
                    !.trace = Append(@, "sigma")]]
    /\ UNCHANGED <<ADD_BORDER, pillow, service>>

InitSigma ==
    /\ InitBuild
    /\ \E shapes \in [Inv -> SigmaSides \X SigmaSides] :
          frame = [i \in Inv |->
                     [NewFrame("sigma", <<>>, " Bold ", "none")
                         EXCEPT !.shape = shapes[i]]]

NextSigma == \E i \in Inv : AdaptiveSigma(i)

SpecSigma == InitSigma /\ [][NextSigma]_vars

(***************************************************************************)
(* The service: calls of the public functions of credits_manager.py        *)
(***************************************************************************)
Today == _today_iso_in_target_tz(now, tz_minutes)

\* the clock moves on by dt minutes, up to the day limit
AdvanceClock(dt, limit) ==
    /\ now + dt <= limit * MinutesPerDay
    /\ now' = now + dt
    /\ UNCHANGED <<pipeline, redis, worker, ledger, tz_minutes, _in_memory_store, _user_store,
                   _email_to_user_id, _password_reset_tokens, issued,
                   last_call>>

RefreshFreeCredits(user_id) ==
    LET out == refresh_free_credits(_in_memory_store, user_id, Today)
    IN  /\ _in_memory_store' = out.store
        /\ last_call' = [op |-> "refresh_free_credits", user_id |-> user_id,
                         before |-> _in_memory_store, today |-> Today,
                         raised |-> "", record |-> out.record]
        /\ UNCHANGED <<pipeline, redis, worker, ledger, now, tz_minutes, _user_store,
                       _email_to_user_id, _password_reset_tokens, issued>>

ConsumeCreditOrFail(user_id) ==
    LET out == consume_credit_or_fail(_in_memory_store, user_id, Today)
    IN  /\ _in_memory_store' = out.store
        /\ last_call' = [op |-> "consume_credit_or_fail",
                         user_id |-> user_id,
                         before |-> _in_memory_store, today |-> Today,
                         raised |-> out.raised, record |-> out.record]
        /\ UNCHANGED <<pipeline, redis, worker, ledger, now, tz_minutes, _user_store,
                       _email_to_user_id, _password_reset_tokens, issued>>

\* add_paid_credits; the balance is kept within limit
AddPaidCredits(user_id, amount, limit) ==
    LET out == add_paid_credits(_in_memory_store, user_id, amount, Today)
    IN  /\ out.record.paid_credits <= limit
        /\ _in_memory_store' = out.store
        /\ last_call' = [op |-> "add_paid_credits", user_id |-> user_id,
                         amount |-> amount,
                         before |-> _in_memory_store, today |-> Today,
                         raised |-> "", record |-> out.record]
        /\ UNCHANGED <<pipeline, redis, worker, ledger, now, tz_minutes, _user_store,
                       _email_to_user_id, _password_reset_tokens, issued>>

GetCreditStatus(user_id) ==
    LET out == get_credit_status(_in_memory_store, user_id, Today)
    IN  /\ _in_memory_store' = out.store
        /\ last_call' = [op |-> "get_credit_status", user_id |-> user_id,
                         before |-> _in_memory_store, today |-> Today,
                         raised |-> "", record |-> out.record]
        /\ UNCHANGED <<pipeline, redis, worker, ledger, now, tz_minutes, _user_store,
                       _email_to_user_id, _password_reset_tokens, issued>>


(***************************************************************************)
(* The credit functions called in every order for the users CreditUsers,   *)
(* over MaxDays days: the clock moves in steps of 23.5 hours, so that      *)
(* calls fall on the same day and on the next, and the date is taken in    *)
(* UTC or at UTC+1.  Amounts are -1..2, balances stay within MaxPaid.      *)
(***************************************************************************)
MaxDays == 3
MaxPaid == 2

CreditUsers == {"u1", "u2"}

TzOffsets == {0, 60}

ClockSteps == {1410}

PipelineIdle ==
    /\ ADD_BORDER = ADD_BORDER_AT_IMPORT
    /\ pillow = "from_9_5"
    /\ frame = [i \in Inv |-> IdleFrame]

InitCredits ==
    /\ PipelineIdle
    /\ StoresAtImport
    /\ now = 0
    /\ tz_minutes \in TzOffsets

NextCredits ==
    \/ \E dt \in ClockSteps : AdvanceClock(dt, MaxDays)
    \/ \E u \in CreditUsers :
          \/ RefreshFreeCredits(u)
          \/ ConsumeCreditOrFail(u)
          \/ GetCreditStatus(u)
          \/ \E amount \in -1..2 : AddPaidCredits(u, amount, MaxPaid)

SpecCredits == InitCredits /\ [][NextCredits]_vars


(***************************************************************************)
(* The credit functions called by NWorkers worker processes on one         *)
(* account.  The store is the one the processes share, the Redis hashes    *)
(* under _make_key (REDIS_URL set); it has the fields the in-memory store  *)
(* has and is held in the same variable.  credits_manager.py takes no      *)
(* lock and uses no transaction: a call is a hgetall (line 57), local      *)
(* computation and one or two hset (line 84), and each command is one      *)
(* step.  Each worker makes at most MaxWorkerCalls calls, all on one day.  *)
(***************************************************************************)
MaxWorkerCalls == 2

SharedUser == "u1"

WorkerOps == {"refresh_free_credits", "consume_credit_or_fail",
              "add_paid_credits"}

\* lines 118-124: the record refresh_free_credits saves, from the one loaded
RefreshedRecord(loaded, today) ==
    IF loaded.paid_credits = 0 /\ loaded.last_free_refill # today
    THEN [loaded EXCEPT !.free_credits = FREE_REFILL,
                        !.last_free_refill = today]
    ELSE loaded

\* lines 145-148: the record consume_credit_or_fail saves
ConsumedRecord(record) ==
    IF record.paid_credits > 0
    THEN [record EXCEPT !.paid_credits = @ - 1]
    ELSE [record EXCEPT !.free_credits = Max2(@ - 1, 0)]

\* a call enters and loads the record: line 114 (refresh_free_credits, also
\* as the first line of consume_credit_or_fail) or line 162
\* (add_paid_credits with amount > 0)
WorkerLoad(w, op, amount) ==
    /\ worker[w].pc = "idle"
    /\ worker[w].calls < MaxWorkerCalls
    /\ worker' = [worker EXCEPT ![w] =
          [pc |-> IF op = "add_paid_credits" THEN "add_save"
                  ELSE "refresh_save",
           op |-> op, user_id |-> SharedUser, amount |-> amount,
           record |-> _load_user_record(_in_memory_store, SharedUser),
           calls |-> @.calls + 1]]
    /\ ledger' = [ledger EXCEPT !.overlapped =
          @ \/ \E v \in Workers \ {w} : worker[v].pc # "idle"]
    /\ UNCHANGED <<pipeline, redis, now, tz_minutes, _in_memory_store, _user_store,
                   _email_to_user_id, _password_reset_tokens, issued,
                   last_call>>

\* lines 116-127: refresh_free_credits decides on the record it loaded,
\* saves it, and returns it (to its caller consume_credit_or_fail, line 137)
WorkerRefreshSave(w) ==
    /\ worker[w].pc = "refresh_save"
    /\ LET loaded == worker[w].record
           record == RefreshedRecord(loaded, Today)
       IN  /\ _in_memory_store' =
                 _save_user_record(_in_memory_store, worker[w].user_id, record)
           /\ worker' = [worker EXCEPT ![w] =
                 IF @.op = "consume_credit_or_fail"
                 THEN [@ EXCEPT !.pc = "consume_save", !.record = record]
                 ELSE [@ EXCEPT !.pc = "idle", !.record = record]]
           /\ ledger' = [ledger EXCEPT !.refilled =
                 IF record # loaded /\ @ = 0 THEN FREE_REFILL ELSE @]
    /\ UNCHANGED <<pipeline, redis, now, tz_minutes, _user_store,
                   _email_to_user_id, _password_reset_tokens, issued,
                   last_call>>

\* lines 139-151: consume_credit_or_fail raises NoCreditsError, or takes one
\* credit off the record refresh_free_credits returned and saves it
WorkerConsumeSave(w) ==
    /\ worker[w].pc = "consume_save"
    /\ LET record == worker[w].record
       IN  IF record.paid_credits <= 0 /\ record.free_credits <= 0
           THEN /\ worker' = [worker EXCEPT ![w].pc = "idle"]
                /\ UNCHANGED <<_in_memory_store, ledger>>
           ELSE /\ _in_memory_store' =
                      _save_user_record(_in_memory_store, worker[w].user_id,
                                        ConsumedRecord(record))
                /\ worker' = [worker EXCEPT ![w] =
                      [@ EXCEPT !.pc = "idle",
                                !.record = ConsumedRecord(record)]]
                /\ ledger' = [ledger EXCEPT !.consumed = @ + 1]
    /\ UNCHANGED <<pipeline, redis, now, tz_minutes, _user_store,
                   _email_to_user_id, _password_reset_tokens, issued,
                   last_call>>

\* lines 163-166: add_paid_credits adds the amount to the record it loaded
\* and saves it
WorkerAddSave(w) ==
    /\ worker[w].pc = "add_save"
    /\ LET record == [worker[w].record EXCEPT
                         !.paid_credits = @ + worker[w].amount]
       IN  /\ _in_memory_store' =
                 _save_user_record(_in_memory_store, worker[w].user_id, record)
           /\ worker' = [worker EXCEPT ![w] =
                 [@ EXCEPT !.pc = "idle", !.record = record]]
           /\ ledger' = [ledger EXCEPT !.granted = @ + worker[w].amount]
    /\ UNCHANGED <<pipeline, redis, now, tz_minutes, _user_store,
                   _email_to_user_id, _password_reset_tokens, issued,
                   last_call>>

InitWorkers ==
    /\ PipelineIdle
    /\ StoresAtImport
    /\ now = 0
    /\ tz_minutes = 0

NextWorkers ==
    \E w \in Workers :
        \/ \E op \in WorkerOps : WorkerLoad(w, op, 1)
        \/ WorkerRefreshSave(w)
        \/ WorkerConsumeSave(w)
        \/ WorkerAddSave(w)

SpecWorkers == InitWorkers /\ [][NextWorkers]_vars

(***************************************************************************)
(* The HTTP handlers of auth.py, main.py and billing.py.  A handler that   *)
(* is an async def without an await between its reads and its writes runs  *)
(* to completion on the event loop, and is one step here; last_call        *)
(* keeps the request, the time at and the stores it found and the status   *)
(* it was answered with (200 when nothing was raised).                     *)
(***************************************************************************)
\* str(uuid.uuid4()): the user ids not given out yet
UserIds == {"u1", "u2"}

FreshUserIds == UserIds \ DOMAIN _user_store

\* the access tokens handed out, and the reset tokens minted
AccessTokens == {tok \in issued : tok.sig = "JWT_SECRET_KEY"}

ResetTokensMinted == Cardinality({tok \in issued : tok.sig = "reset"})

\* what a client can send as a bearer token: a token handed out, or one
\* with the same payload signed with another key
BearerTokens ==
    AccessTokens \cup {[tok EXCEPT !.sig = "forged"] : tok \in AccessTokens}

\* POST /auth/signup
Signup(email, password) ==
    /\ FreshUserIds # {}
    /\ LET user_id == CHOOSE u \in FreshUserIds : TRUE
           out     == create_user(_user_store, _email_to_user_id, email,
                                  password, user_id, now)
           status  == IF Len(password) < 8 \/ out.raised # ""
                      THEN 400 ELSE 200
           token   == create_access_token(user_id, now,
                                          ACCESS_TOKEN_EXPIRE_MINUTES)
       IN  /\ _user_store' = IF status = 200 THEN out.users
                             ELSE _user_store
           /\ _email_to_user_id' = IF status = 200 THEN out.emails
                                   ELSE _email_to_user_id
           /\ issued' = IF status = 200 THEN issued \cup {token} ELSE issued
           /\ last_call' = [op |-> "signup", email |-> email,
                            status |-> status, users |-> _user_store]
    /\ UNCHANGED <<pipeline, redis, worker, ledger, now, tz_minutes, _in_memory_store,
                   _password_reset_tokens>>

\* POST /auth/login
Login(email, password) ==
    LET user   == get_user_by_email(_user_store, _email_to_user_id, email)
        status == IF user = NoUser THEN 401
                  ELSE IF user.deleted_at # NoTime THEN 403
                  ELSE IF ~verify_password(password, user.password_hash)
                  THEN 401
                  ELSE 200
        saved  == save_user(_user_store, _email_to_user_id,
                            [user EXCEPT !.last_login = now])
        token  == create_access_token(user.user_id, now,
                                      ACCESS_TOKEN_EXPIRE_MINUTES)
    IN  /\ _user_store' = IF status = 200 THEN saved.users ELSE _user_store
        /\ _email_to_user_id' = IF status = 200 THEN saved.emails
                                ELSE _email_to_user_id
        /\ issued' = IF status = 200 THEN issued \cup {token} ELSE issued
        /\ last_call' = [op |-> "login", email |-> email, status |-> status,
                         users |-> _user_store]
        /\ UNCHANGED <<pipeline, redis, worker, ledger, now, tz_minutes, _in_memory_store,
                       _password_reset_tokens>>

\* GET /auth/me: the dependency get_current_user and nothing else
ReadMe(token) ==
    /\ last_call' = [op |-> "read_me", token |-> token, at |-> now,
                     status |-> get_current_user(_user_store, token,
                                                 now).status,
                     users |-> _user_store]
    /\ UNCHANGED <<pipeline, redis, worker, ledger, now, tz_minutes, _in_memory_store, _user_store,
                   _email_to_user_id, _password_reset_tokens, issued>>

\* POST /auth/request-password-reset; the token goes out by e-mail
RequestPasswordReset(email, limit) ==
    LET user  == get_user_by_email(_user_store, _email_to_user_id, email)
        token == ResetTokensMinted + 1
    IN  /\ user # NoUser => token <= limit
        /\ _password_reset_tokens' =
              IF user = NoUser THEN _password_reset_tokens
              ELSE create_password_reset_token_for_user(
                       _password_reset_tokens, user, token, now)
        /\ issued' =
              IF user = NoUser THEN issued
              ELSE issued \cup
                   {[sub |-> user.user_id,
                     exp |-> now + PASSWORD_RESET_TOKEN_EXPIRE_MINUTES,
                     sig |-> "reset", n |-> token]}
        /\ last_call' = [op |-> "request_password_reset", email |-> email,
                         status |-> 200, users |-> _user_store]
        /\ UNCHANGED <<pipeline, redis, worker, ledger, now, tz_minutes, _in_memory_store,
                       _user_store, _email_to_user_id>>

\* POST /auth/reset-password
ResetPassword(token, new_password) ==
    LET found  == get_user_id_by_password_reset_token(
                      _password_reset_tokens, token, now)
        user   == get_user_by_id(_user_store, found.user_id)
        status == IF Len(new_password) < 8 THEN 400
                  ELSE IF found.user_id = NONE THEN 400
                  ELSE IF user = NoUser THEN 400
                  ELSE 200
        saved  == save_user(_user_store, _email_to_user_id,
                            [user EXCEPT !.password_hash =
                                             hash_password(new_password)])
    IN  /\ _user_store' = IF status = 200 THEN saved.users ELSE _user_store
        /\ _email_to_user_id' = IF status = 200 THEN saved.emails
                                ELSE _email_to_user_id
        /\ _password_reset_tokens' =
              IF Len(new_password) < 8 THEN _password_reset_tokens
              ELSE IF found.user_id = NONE THEN found.tokens
              ELSE delete_password_reset_token(found.tokens, token)
        /\ last_call' = [op |-> "reset_password", token |-> token,
                         new_password |-> new_password, at |-> now,
                         status |-> status, users |-> _user_store,
                         tokens |-> _password_reset_tokens]
        /\ UNCHANGED <<pipeline, redis, worker, ledger, now, tz_minutes, _in_memory_store, issued>>

\* POST /auth/me/delete-account
DeleteOwnAccount(token, confirmation_text) ==
    LET auth    == get_current_user(_user_store, token, now)
        user    == get_user_by_id(_user_store, auth.user.user_id)
        status  == IF auth.status # 200 THEN auth.status
                   ELSE IF confirmation_text # "Delete" THEN 400
                   ELSE IF user = NoUser THEN 404
                   ELSE 200
        saved   == save_user(_user_store, _email_to_user_id,
                             [user EXCEPT !.deleted_at = now])
        cleared == clear_all_credits(_in_memory_store, auth.user.user_id)
    IN  /\ _user_store' = IF status = 200 THEN saved.users ELSE _user_store
        /\ _email_to_user_id' = IF status = 200 THEN saved.emails
                                ELSE _email_to_user_id
        \* try: clear_all_credits(...) except Exception: pass
        /\ _in_memory_store' =
              IF status = 200 /\ cleared.raised = "" THEN cleared.store
              ELSE _in_memory_store
        /\ last_call' = [op |-> "delete_own_account", token |-> token,
                         at |-> now,
                         confirmation_text |-> confirmation_text,
                         status |-> status, users |-> _user_store,
                         before |-> _in_memory_store]
        /\ UNCHANGED <<pipeline, redis, worker, ledger, now, tz_minutes, _password_reset_tokens,
                       issued>>

\* /edge going on to the pipeline when NoCreditsError is raised
ProcessEdge_NoRefusal(token, upload) ==
    LET auth   == get_current_user(_user_store, token, now)
        out    == consume_credit_or_fail(_in_memory_store,
                                         auth.user.user_id, Today)
        result == run_edge_pipeline(upload.img, "none", ADD_BORDER, pillow)
        status == IF auth.status # 200 THEN auth.status
                  ELSE IF ~upload.opens THEN 500
                  ELSE IF result.raised # "" THEN 500
                  ELSE 200
    IN  /\ _in_memory_store' = IF auth.status = 200 THEN out.store
                               ELSE _in_memory_store
        /\ last_call' =
              [op |-> "process_edge", token |-> token, status |-> status,
               detail |-> "",
               user_id |-> auth.user.user_id,
               pipeline_ran |-> auth.status = 200 /\ upload.opens,
               before |-> _in_memory_store, today |-> Today,
               users |-> _user_store]
        /\ UNCHANGED <<pipeline, redis, worker, ledger, now, tz_minutes, _user_store,
                       _email_to_user_id, _password_reset_tokens, issued>>

\* /edge giving the credit back when the upload or the pipeline fails
ProcessEdge_Refund(token, upload) ==
    LET auth   == get_current_user(_user_store, token, now)
        out    == consume_credit_or_fail(_in_memory_store,
                                         auth.user.user_id, Today)
        result == run_edge_pipeline(upload.img, "none", ADD_BORDER, pillow)
        paid   == auth.status = 200 /\ out.raised = ""
        status == IF auth.status # 200 THEN auth.status
                  ELSE IF out.raised # "" THEN 402
                  ELSE IF ~upload.opens THEN 500
                  ELSE IF result.raised # "" THEN 500
                  ELSE 200
    IN  /\ _in_memory_store' = IF auth.status = 200 /\ status # 500
                               THEN out.store
                               ELSE _in_memory_store
        /\ last_call' =
              [op |-> "process_edge", token |-> token, status |-> status,
               detail |-> IF status = 402 THEN "NO_CREDITS"
                          ELSE IF status = 500 THEN "Processing failed: "
                          ELSE "",
               upload |-> upload,
               user_id |-> auth.user.user_id,
               pipeline_ran |-> paid /\ upload.opens,
               before |-> _in_memory_store, today |-> Today,
               users |-> _user_store]
        /\ UNCHANGED <<pipeline, redis, worker, ledger, now, tz_minutes, _user_store,
                       _email_to_user_id, _password_reset_tokens, issued>>

\* POST /edge with an upload: whether Image.open reads it, and the image.
\* The detail of a 500 is the prefix of f"Processing failed: {e}".
ProcessEdge(token, upload) ==
    LET auth   == get_current_user(_user_store, token, now)
        out    == consume_credit_or_fail(_in_memory_store,
                                         auth.user.user_id, Today)
        result == run_edge_pipeline(upload.img, "none", ADD_BORDER, pillow)
        paid   == auth.status = 200 /\ out.raised = ""
        status == IF auth.status # 200 THEN auth.status
                  ELSE IF out.raised # "" THEN 402
                  ELSE IF ~upload.opens THEN 500
                  ELSE IF result.raised # "" THEN 500
                  ELSE 200
    IN  /\ _in_memory_store' = IF auth.status = 200 THEN out.store
                               ELSE _in_memory_store
        /\ last_call' =
              [op |-> "process_edge", token |-> token, status |-> status,
               detail |-> IF status = 402 THEN "NO_CREDITS"
                          ELSE IF status = 500 THEN "Processing failed: "
                          ELSE "",
               upload |-> upload,
               user_id |-> auth.user.user_id,
               pipeline_ran |-> paid /\ upload.opens,
               before |-> _in_memory_store, today |-> Today,
               users |-> _user_store]
        /\ UNCHANGED <<pipeline, redis, worker, ledger, now, tz_minutes, _user_store,
                       _email_to_user_id, _password_reset_tokens, issued>>

\* GET /me/credits
MeCredits(token) ==
    LET auth == get_current_user(_user_store, token, now)
        out  == get_credit_status(_in_memory_store, auth.user.user_id, Today)
    IN  /\ _in_memory_store' = IF auth.status = 200 THEN out.store
                               ELSE _in_memory_store
        /\ last_call' = [op |-> "me_credits", token |-> token,
                         status |-> auth.status,
                         user_id |-> auth.user.user_id,
                         before |-> _in_memory_store, today |-> Today,
                         users |-> _user_store]
        /\ UNCHANGED <<pipeline, redis, worker, ledger, now, tz_minutes, _user_store,
                       _email_to_user_id, _password_reset_tokens, issued>>

\* stripe_webhook crediting on every event type
stripe_webhook_AnyEvent(store, sig_header, payload, today) ==
    IF sig_header = NONE \/ construct_event(payload, sig_header) # ""
    THEN [status |-> 400, body |-> "", store |-> store]
    ELSE IF payload.metadata.plan_id \notin DOMAIN PLAN_CONFIG
    THEN [status |-> 200, body |-> "ignored", store |-> store]
    ELSE [status |-> 200, body |-> "ok",
          store  |-> IF payload.metadata.user_id \notin {NONE, ""}
                     THEN add_paid_credits(store, payload.metadata.user_id,
                              PLAN_CONFIG[payload.metadata.plan_id].credits,
                              today).store
                     ELSE store]

\* stripe_webhook: the status and body of the answer and the credit store
\* after it.  payload is the event: its type and metadata of its object.
stripe_webhook(store, sig_header, payload, today) ==
    IF sig_header = NONE \/ construct_event(payload, sig_header) # ""
    THEN [status |-> 400, body |-> "", store |-> store]
    ELSE IF payload.type # "checkout.session.completed"
    THEN [status |-> 200, body |-> "ok", store |-> store]
    ELSE IF payload.metadata.plan_id \notin DOMAIN PLAN_CONFIG
    THEN [status |-> 200, body |-> "ignored", store |-> store]
    ELSE [status |-> 200, body |-> "ok",
          store  |-> IF payload.metadata.user_id \notin {NONE, ""}
                     THEN add_paid_credits(store, payload.metadata.user_id,
                              PLAN_CONFIG[payload.metadata.plan_id].credits,
                              today).store
                     ELSE store]

\* POST /billing/stripe-webhook; balances are kept within limit
StripeWebhook(sig_header, payload, limit) ==
    LET out == stripe_webhook(_in_memory_store, sig_header, payload, Today)
    IN  /\ \A k \in DOMAIN out.store : out.store[k].paid_credits <= limit
        /\ _in_memory_store' = out.store
        /\ last_call' = [op |-> "stripe_webhook", sig_header |-> sig_header,
                         payload |-> payload, status |-> out.status,
                         body |-> out.body, before |-> _in_memory_store]
        /\ UNCHANGED <<pipeline, redis, worker, ledger, now, tz_minutes, _user_store,
                       _email_to_user_id, _password_reset_tokens, issued>>


(***************************************************************************)
(* /edge: an account signs up, is granted one or two paid credits, reads   *)
(* its credits, uploads to /edge an unreadable file, an image the pipeline *)
(* returns for and one it raises for, and deletes itself, with tokens      *)
(* handed out and with forged ones, on one day and on the next.  A second  *)
(* user id holds paid credits of its own.                                  *)
(***************************************************************************)
MaxEdgeDays == 1
MaxEdgePaid == 2

EdgeEmails == {<<"a", "@", "x">>}

ConfirmationTexts == {"Delete", "delete", ""}

EdgeUploads ==
    {[opens |-> FALSE, img |-> <<>>],
     [opens |-> TRUE, img |-> BlockImage(3, 3, 1, 2, RED, GREEN)],
     [opens |-> TRUE, img |-> BlockImage(1, 1, 0, 1, GRAY, GRAY)]}

InitEdge ==
    /\ PipelineIdle
    /\ StoresAtImport
    /\ now = 0
    /\ tz_minutes = 60

NextEdge ==
    \/ \E dt \in ClockSteps : AdvanceClock(dt, MaxEdgeDays)
    \/ \E email \in EdgeEmails : Signup(email, "correct horse")
    \/ \E token \in BearerTokens :
          \/ \E upload \in EdgeUploads : ProcessEdge(token, upload)
          \/ MeCredits(token)
          \/ \E text \in ConfirmationTexts : DeleteOwnAccount(token, text)
    \/ \E user_id \in UserIds, amount \in 1..MaxEdgePaid :
          AddPaidCredits(user_id, amount, MaxEdgePaid)

SpecEdge == InitEdge /\ [][NextEdge]_vars

(***************************************************************************)
(* The Stripe webhook, sent with no signature header, with the signature   *)
(* of another secret and with the right one: checkout.session.completed    *)
(* for every plan and user of the model, and the events that must grant    *)
(* nothing: another event type, an unknown plan, no plan, no user_id, an   *)
(* empty user_id, a legacy client_id alone.  One user spends credits;      *)
(* balances stay within MaxWebhookPaid, and of a purchase at most MaxSpent *)
(* credits are spent.                                                      *)
(***************************************************************************)
MaxWebhookPaid == 500
MaxSpent == 1

Spender == "u1"

SignatureHeaders == {NONE, "forged", "STRIPE_WEBHOOK_SECRET"}

\* the event of a payload: its type and the metadata of its object
Event(type, user_id, plan_id, client_id) ==
    [type |-> type,
     metadata |-> [user_id |-> user_id, plan_id |-> plan_id,
                   client_id |-> client_id]]

WebhookPayloads ==
    {Event("checkout.session.completed", user_id, plan_id, NONE) :
        user_id \in UserIds, plan_id \in DOMAIN PLAN_CONFIG}
    \cup {Event("invoice.paid", "u1", "gold", NONE),
          Event("checkout.session.completed", "u1", "platinum", NONE),
          Event("checkout.session.completed", "u1", NONE, NONE),
          Event("checkout.session.completed", NONE, "gold", NONE),
          Event("checkout.session.completed", "", "silver", NONE),
          Event("checkout.session.completed", NONE, "bronze", "device-1")}

\* the credits of a user spent since the last purchase
SpentOfPurchase(user_id) ==
    LET paid == _load_user_record(_in_memory_store, user_id).paid_credits
    IN  (50 - (paid % 50)) % 50

InitWebhook ==
    /\ PipelineIdle
    /\ StoresAtImport
    /\ now = 0
    /\ tz_minutes = 60

NextWebhook ==
    \/ \E sig_header \in SignatureHeaders, payload \in WebhookPayloads :
          StripeWebhook(sig_header, payload, MaxWebhookPaid)
    \/ SpentOfPurchase(Spender) < MaxSpent /\ ConsumeCreditOrFail(Spender)

SpecWebhook == InitWebhook /\ [][NextWebhook]_vars

(***************************************************************************)
(* The accounts: sign-up, login, password reset and deletion for the       *)
(* addresses of AuthEmails (two spellings of one address and another       *)
(* address) with a password that is too short and two that are not.  The   *)
(* clock moves by 40 minutes, so that a reset token is used before and     *)
(* after its 30 minutes, and then by the life of an access token.          *)
(***************************************************************************)
MaxAuthDays == 8
MaxShortSteps == 1
MaxResetTokens == 2
MaxAccessTokens == 2

ShortStep == 40

AuthEmails == {<<"a", "@", "x">>, <<"A", "@", "x">>, <<"b", "@", "x">>}

Passwords == {"correct horse", "battery staple"}

ShortPassword == "short"

InitAuth ==
    /\ PipelineIdle
    /\ StoresAtImport
    /\ now = 0
    /\ tz_minutes = 60

NextAuth ==
    \/ now < MaxShortSteps * ShortStep /\ AdvanceClock(ShortStep, MaxAuthDays)
    \/ /\ now = MaxShortSteps * ShortStep
       /\ AdvanceClock(ACCESS_TOKEN_EXPIRE_MINUTES, MaxAuthDays)
    \/ \E email \in AuthEmails :
          \/ \E password \in {ShortPassword, "correct horse"} :
                Signup(email, password)
          \/ \E password \in Passwords :
                /\ Cardinality(AccessTokens) < MaxAccessTokens
                /\ Login(email, password)
          \/ RequestPasswordReset(email, MaxResetTokens)
    \/ \E token \in 1..MaxResetTokens :
          \E new_password \in {ShortPassword, "battery staple"} :
              ResetPassword(token, new_password)
    \/ \E token \in BearerTokens :
          \/ ReadMe(token)
          \/ \E text \in ConfirmationTexts : DeleteOwnAccount(token, text)

SpecAuth == InitAuth /\ [][NextAuth]_vars


(***************************************************************************)
(* Password reset: two accounts sign up, reset tokens are requested for    *)
(* their addresses and for an unknown one, and reset-password is called    *)
(* with every token minted and with one never minted, with a password that *)
(* is too short and two that are not, while the clock moves in steps of    *)
(* 30 minutes: a token is used when new, when exactly 30 minutes old and   *)
(* when older.                                                             *)
(***************************************************************************)
MaxResetSteps == 2

ResetStep == 30

NextReset ==
    \/ now < MaxResetSteps * ResetStep /\ AdvanceClock(ResetStep, MaxAuthDays)
    \/ \E email \in {<<"a", "@", "x">>, <<"b", "@", "x">>} :
          Signup(email, "correct horse")
    \/ \E email \in AuthEmails \cup {<<"c", "@", "x">>} :
          RequestPasswordReset(email, MaxResetTokens)
    \/ \E token \in 1..(MaxResetTokens + 1) :
          \E new_password \in Passwords \cup {ShortPassword} :
              ResetPassword(token, new_password)

SpecReset == InitAuth /\ [][NextReset]_vars


(***************************************************************************)
(* Both modules on the Redis backend (REDIS_URL set, USE_FAKE_REDIS=0):    *)
(* auth.py keeps an account as the JSON string of SET under _key_user and  *)
(* the address index under _key_user_email; credits_manager.py keeps the   *)
(* credit record as the hash of HSET under _make_key.  A command on a key  *)
(* holding the other type is answered WRONGTYPE, which redis-py raises as  *)
(* ResponseError; SET replaces whatever the key holds.  json.dumps and     *)
(* json.loads give the account's fields back unchanged.                    *)
(***************************************************************************)
_key_user(user_id) == "ew:user:" \o user_id

\* the characters of an address as one string
RECURSIVE Joined(_)
Joined(s) == IF s = <<>> THEN "" ELSE Head(s) \o Joined(Tail(s))

_key_user_email(email) == "ew:user_email:" \o Joined(NormalizeEmail(email))

\* the key holds a value of another type than the command is for
WRONGTYPE(db, key, type) == key \in DOMAIN db /\ db[key].type # type

\* client.set(key, value)
SET(db, key, value) ==
    [k \in DOMAIN db \cup {key} |->
        IF k = key THEN [type |-> "string", value |-> value] ELSE db[k]]

\* the hashes of the keyspace, as the dict of the credit functions
Hashes(db) ==
    [k \in {h \in DOMAIN db : db[h].type = "hash"} |-> db[k].value]

\* the keyspace after the hset commands that took the hashes to `store`
HSET(db, store) ==
    [k \in DOMAIN db \cup DOMAIN store |->
        IF k \in DOMAIN store THEN [type |-> "hash", value |-> store[k]]
        ELSE db[k]]

\* get_user_by_id with the Redis client: client.get and json.loads
RedisGetUserById(db, user_id) ==
    LET key == _key_user(user_id)
    IN  IF WRONGTYPE(db, key, "string")
        THEN [raised |-> "ResponseError", user |-> NoUser]
        ELSE IF key \notin DOMAIN db THEN [raised |-> "", user |-> NoUser]
        ELSE [raised |-> "", user |-> db[key].value]

\* get_user_by_email with the Redis client
RedisGetUserByEmail(db, email) ==
    LET email_key == _key_user_email(email)
    IN  IF email_key \notin DOMAIN db THEN [raised |-> "", user |-> NoUser]
        ELSE RedisGetUserById(db, db[email_key].value)

\* save_user with the Redis client: the keyspace after its two SETs
RedisSaveUser(db, user) ==
    SET(SET(db, _key_user(user.user_id), user),
        _key_user_email(user.email), user.user_id)

\* _load_user_record with the Redis client: client.hgetall
RedisLoadUserRecord(db, user_id) ==
    IF WRONGTYPE(db, _make_key(user_id), "hash")
    THEN [raised |-> "ResponseError",
          record |-> [paid_credits |-> 0, free_credits |-> 0,
                      last_free_refill |-> NONE]]
    ELSE [raised |-> "",
          record |-> _load_user_record(Hashes(db), user_id)]

\* consume_credit_or_fail with the Redis client: its first command is the
\* hgetall of _load_user_record, which raises before anything is written
RedisConsumeCreditOrFail(db, user_id, today) ==
    LET out == consume_credit_or_fail(Hashes(db), user_id, today)
    IN  IF RedisLoadUserRecord(db, user_id).raised # ""
        THEN [raised |-> "ResponseError", db |-> db]
        ELSE [raised |-> out.raised, db |-> HSET(db, out.store)]

\* add_paid_credits with the Redis client
RedisAddPaidCredits(db, user_id, amount, today) ==
    LET out == add_paid_credits(Hashes(db), user_id, amount, today)
    IN  IF RedisLoadUserRecord(db, user_id).raised # ""
        THEN [raised |-> "ResponseError", db |-> db]
        ELSE [raised |-> "", db |-> HSET(db, out.store)]

RedisEmails == {<<"a", "@", "x">>, <<"b", "@", "x">>}

\* the user ids that have an account: those the address index names
Registered(db) ==
    {u \in UserIds : \E email \in RedisEmails :
        /\ _key_user_email(email) \in DOMAIN db
        /\ db[_key_user_email(email)].value = u}

\* POST /auth/signup on Redis
SignupOnRedis(email, password) ==
    /\ UserIds \ Registered(redis) # {}
    /\ LET user_id == CHOOSE u \in UserIds \ Registered(redis) : TRUE
           found   == RedisGetUserByEmail(redis, email)
           user    == [user_id            |-> user_id,
                       email              |-> NormalizeEmail(email),
                       password_hash      |-> hash_password(password),
                       created_at         |-> now,
                       last_login         |-> now,
                       deleted_at         |-> NoTime,
                       stripe_customer_id |-> NONE]
           status  == IF found.raised # "" THEN 500
                      ELSE IF Len(password) < 8 \/ found.user # NoUser
                      THEN 400 ELSE 200
       IN  /\ redis' = IF status = 200 THEN RedisSaveUser(redis, user)
                       ELSE redis
           /\ last_call' = [op |-> "signup", user_id |-> user_id,
                            status |-> status, raised |-> found.raised,
                            before |-> redis]
    /\ UNCHANGED <<pipeline, worker, ledger, now, tz_minutes,
                   _in_memory_store, _user_store, _email_to_user_id,
                   _password_reset_tokens, issued>>

\* POST /auth/login on Redis
LoginOnRedis(email, password) ==
    LET found  == RedisGetUserByEmail(redis, email)
        user   == found.user
        status == IF found.raised # "" THEN 500
                  ELSE IF user = NoUser THEN 401
                  ELSE IF user.deleted_at # NoTime THEN 403
                  ELSE IF ~verify_password(password, user.password_hash)
                  THEN 401
                  ELSE 200
    IN  /\ redis' = IF status = 200
                    THEN RedisSaveUser(redis, [user EXCEPT !.last_login = now])
                    ELSE redis
        /\ last_call' = [op |-> "login", user_id |-> user.user_id,
                         status |-> status, raised |-> found.raised,
                         before |-> redis]
        /\ UNCHANGED <<pipeline, worker, ledger, now, tz_minutes,
                       _in_memory_store, _user_store, _email_to_user_id,
                       _password_reset_tokens, issued>>

\* consume_credit_or_fail(user_id) for the account of an authenticated
\* request (/edge)
ConsumeOnRedis(user_id) ==
    LET out == RedisConsumeCreditOrFail(redis, user_id, Today)
    IN  /\ user_id \in Registered(redis)
        /\ redis' = out.db
        /\ last_call' = [op |-> "consume_credit_or_fail",
                         user_id |-> user_id, status |-> 0,
                         raised |-> out.raised, before |-> redis]
        /\ UNCHANGED <<pipeline, worker, ledger, now, tz_minutes,
                       _in_memory_store, _user_store, _email_to_user_id,
                       _password_reset_tokens, issued>>

\* largest balance of paid credits on Redis
MaxRedisGrant == 2

\* add_paid_credits(user_id, amount) for the account a checkout was made
\* for (the webhook); the balance is kept within MaxRedisGrant
AddCreditsOnRedis(user_id, amount) ==
    LET out == RedisAddPaidCredits(redis, user_id, amount, Today)
    IN  /\ user_id \in Registered(redis)
        /\ RedisLoadUserRecord(out.db, user_id).record.paid_credits
               <= MaxRedisGrant
        /\ redis' = out.db
        /\ last_call' = [op |-> "add_paid_credits",
                         user_id |-> user_id, status |-> 0,
                         raised |-> out.raised, before |-> redis]
        /\ UNCHANGED <<pipeline, worker, ledger, now, tz_minutes,
                       _in_memory_store, _user_store, _email_to_user_id,
                       _password_reset_tokens, issued>>

(***************************************************************************)
(* Two accounts sign up and log in at different times of MaxRedisDays      *)
(* days, use credits and are granted credits, all on the one Redis.        *)
(***************************************************************************)
MaxRedisDays == 2

InitRedis ==
    /\ PipelineIdle
    /\ StoresAtImport
    /\ now = 0
    /\ tz_minutes = 60

NextRedis ==
    \/ \E dt \in ClockSteps : AdvanceClock(dt, MaxRedisDays)
    \/ \E email \in RedisEmails, password \in Passwords \cup {ShortPassword} :
          \/ SignupOnRedis(email, password)
          \/ LoginOnRedis(email, password)
    \/ \E user_id \in UserIds :
          \/ ConsumeOnRedis(user_id)
          \/ \E amount \in 1..MaxRedisGrant : AddCreditsOnRedis(user_id, amount)

SpecRedis == InitRedis /\ [][NextRedis]_vars


(***************************************************************************)
(* Stripe delivers an event at least once: the checkout.session.completed  *)
(* event of each session of CheckoutSessions reaches the webhook up to     *)
(* MaxDeliveries times, validly signed, in any order.  The field           *)
(* `delivered` of last_call counts the deliveries of each session that     *)
(* were answered before the request.                                       *)
(***************************************************************************)
MaxDeliveries == 2

CheckoutSessions ==
    {[id |-> "cs_1", user_id |-> "u1", plan_id |-> "bronze"],
     [id |-> "cs_2", user_id |-> "u1", plan_id |-> "silver"],
     [id |-> "cs_3", user_id |-> "u2", plan_id |-> "bronze"],
     [id |-> "cs_4", user_id |-> "u2", plan_id |-> "gold"]}

\* the event of a completed session: obj.id, and the metadata that
\* create_checkout_session gave the session
SessionCompleted(session) ==
    [id |-> session.id, type |-> "checkout.session.completed",
     metadata |-> [user_id |-> session.user_id, plan_id |-> session.plan_id,
                   client_id |-> NONE]]

\* the deliveries answered so far, per session id
DeliveredSoFar ==
    IF last_call.op = "stripe_webhook"
    THEN [last_call.delivered EXCEPT ![last_call.payload.id] = @ + 1]
    ELSE [id \in {s.id : s \in CheckoutSessions} |-> 0]

\* POST /billing/stripe-webhook with the event of a session, possibly again
DeliverSessionCompleted(session) ==
    LET payload == SessionCompleted(session)
        out     == stripe_webhook(_in_memory_store, "STRIPE_WEBHOOK_SECRET",
                                  payload, Today)
    IN  /\ DeliveredSoFar[session.id] < MaxDeliveries
        /\ _in_memory_store' = out.store
        /\ last_call' = [op |-> "stripe_webhook",
                         sig_header |-> "STRIPE_WEBHOOK_SECRET",
                         payload |-> payload, status |-> out.status,
                         body |-> out.body, before |-> _in_memory_store,
                         delivered |-> DeliveredSoFar]
        /\ UNCHANGED <<pipeline, redis, worker, ledger, now, tz_minutes,
                       _user_store, _email_to_user_id,
                       _password_reset_tokens, issued>>

InitReplay ==
    /\ PipelineIdle
    /\ StoresAtImport
    /\ now = 0
    /\ tz_minutes = 60

NextReplay ==
    \E session \in CheckoutSessions : DeliverSessionCompleted(session)

SpecReplay == InitReplay /\ [][NextReplay]_vars


(***************************************************************************)
(* Claims                                                                  *)
(***************************************************************************)
\* the invocations that have returned, and those a stage has raised in
Returned(i) == frame[i].pc = "done"

Raised(i) == frame[i].pc = "error"

\* an H x W array of 8-bit samples: a single-channel image
IsGrayImage(img, shape) ==
    /\ Shape(img) = shape
    /\ IsArray(img)
    /\ \A r \in 1..Len(img) : \A c \in 1..Len(img[r]) : img[r][c] \in 0..255

\* C1: for every valid input (H >= 1, W >= 1, three channels, images one
\* pixel wide or high included) run_edge_pipeline runs to completion: no
\* stage raises.  Stated of every invocation of the pipeline: it is never
\* in a state where a stage has raised.
C1_NoStageRaises == \A i \in Inv : ~Raised(i)

\* the positions of an invocation that hold the output of the edge map or
\* of a later stage in edge_img, and those inside soft_normalize_lines
AfterEdgeMap ==
    {"normalize", "passA", "passB", "passC", "passD", "eq_return",
     "separator", "border", "done"}

InEqualizer == {"passA", "passB", "passC", "passD", "eq_return"}

\* C2: for every valid H x W x 3 input the image run_edge_pipeline returns
\* is single-channel of height H and width W, and so is the output of every
\* stage on the way: the edge map, the equalizer (its float array too), the
\* separator injection and the frame.
C2_ShapeInvariant ==
    \A i \in Inv :
        LET f     == frame[i]
            shape == Shape(f.img_in)
        IN  /\ f.pc \in AfterEdgeMap => IsGrayImage(f.edge_img, shape)
            /\ f.pc \in InEqualizer =>
                  Shape(f.arr) = shape /\ IsArray(f.arr)
            /\ f.pc \in {"separator", "border", "done"} =>
                  IsGrayImage(f.eq_out, shape)
            /\ f.pc \in {"border", "done"} => IsGrayImage(f.sep_in, shape)
            /\ Returned(i) => IsGrayImage(f.noborder, shape)

\* an invocation on an image that is not square returned, after a separator
\* was injected and the frame was drawn
C2_Witness ==
    \E i \in Inv :
        /\ Returned(i)
        /\ Rows(frame[i].img_in) # Cols(frame[i].img_in)
        /\ Rows(frame[i].img_in) > BORDER_WIDTH_PX
        /\ Cols(frame[i].img_in) > BORDER_WIDTH_PX
        /\ frame[i].positions # <<>>
        /\ frame[i].noborder # frame[i].sep_in
        /\ frame[i].edge_img # frame[i].noborder

\* C3: in soft_normalize_lines the value of every pixel of the line mask
\* after Pass B, after Pass C and after Pass D is at least its value on
\* entering that pass.  (pass_in is arr on entry of the pass just run, which
\* is B at passC, C at passD and D at eq_return.)
C3_BrightenOnly ==
    \A i \in Inv :
        frame[i].pc \in {"passC", "passD", "eq_return"} =>
            \A r \in 1..Rows(frame[i].arr) : \A c \in 1..Cols(frame[i].arr) :
                frame[i].mask_lines[r][c] =>
                    frame[i].arr[r][c] >= frame[i].pass_in[r][c]

\* Pass B has raised one line pixel and left a brighter one as it was
C3_Witness ==
    \E i \in Inv :
        /\ frame[i].pc = "passC"
        /\ \E r \in 1..Rows(frame[i].arr), c \in 1..Cols(frame[i].arr) :
              /\ frame[i].mask_lines[r][c]
              /\ frame[i].arr[r][c] > frame[i].pass_in[r][c]
        /\ \E r \in 1..Rows(frame[i].arr), c \in 1..Cols(frame[i].arr) :
              /\ frame[i].mask_lines[r][c]
              /\ frame[i].arr[r][c] = frame[i].pass_in[r][c]
              /\ frame[i].arr[r][c] > BRIGHT_EQ_BASE + BRIGHT_EQ_RANGE


\* row r of rgb_img has a red pixel in source column x - 1 and a green one
\* in source column x (cells x and x + 1), or the two the other way round
RedThenGreen(rgb_img, r, x) ==
    IsRed(rgb_img[r][x]) /\ IsGreen(rgb_img[r][x + 1])

GreenThenRed(rgb_img, r, x) ==
    IsGreen(rgb_img[r][x]) /\ IsRed(rgb_img[r][x + 1])

\* the only red/green adjacency of rgb_img is a red-left/green-right one
\* whose green column is the source column x0, in at least 25% of the rows,
\* and x0 is strictly between the margins x_min and x_max
SingleBoundaryAt(rgb_img, x0) ==
    LET h == Rows(rgb_img)
        w == Cols(rgb_img)
    IN  /\ x0 \in 1..(w - 1)
        /\ XMin(w) < x0 /\ x0 < XMax(w)
        /\ Cardinality({r \in 1..h : RedThenGreen(rgb_img, r, x0)}) * 100
              >= 25 * h
        /\ \A r \in 1..h : \A x \in 1..(w - 1) :
              /\ ~GreenThenRed(rgb_img, r, x)
              /\ x # x0 => ~RedThenGreen(rgb_img, r, x)

\* C4: for an image whose only red/green adjacency is a red-left/green-right
\* vertical boundary at an interior (non-margin) column x0 covering at least
\* 25% of the rows, detect_vertical_red_green_borders returns exactly one
\* separator, within 1 pixel of x0.
C4_SingleSeparator ==
    \A i \in Inv :
        frame[i].pc \in {"border", "done"} =>
            \A x0 \in 1..(Cols(frame[i].img_color) - 1) :
                SingleBoundaryAt(frame[i].img_color, x0) =>
                    /\ Len(frame[i].positions) = 1
                    /\ Abs(frame[i].positions[1] - x0) <= 1

\* the detector has run on an image whose boundary covers exactly a quarter
\* of the rows, and on one whose boundary is the first column after the
\* margin of a wide image
C4_Witness ==
    \E i \in Inv :
        /\ frame[i].pc = "border"
        /\ \E x0 \in 1..(Cols(frame[i].img_color) - 1) :
              /\ SingleBoundaryAt(frame[i].img_color, x0)
              /\ Rows(frame[i].img_color) = 4
              /\ ~RedThenGreen(frame[i].img_color, 2, x0)
              /\ XMin(Cols(frame[i].img_color)) = 1
              /\ x0 = 2

\* cell (r, c) of an h x w image lies within width_px pixels of an edge:
\* rows and columns 0..width_px-1 from each side
InOuterRing(r, c, h, w, width_px) ==
    \/ r <= width_px \/ r > h - width_px
    \/ c <= width_px \/ c > w - width_px

\* C5: with the frame enabled (width BORDER_WIDTH_PX = 2) the output differs
\* from the non-bordered output exactly on the outer ring of pixels within
\* that width of an image edge: every pixel of the ring is 0 and every
\* other pixel is that of the non-bordered output.  Stated of the images
\* each side of which is longer than twice the width, where the ring has an
\* inside and every Pillow release draws alike.
C5_OuterRingOnly ==
    \A i \in Inv :
        (/\ Returned(i) /\ UseBorder(frame[i].enable_border, ADD_BORDER)
         /\ Rows(frame[i].noborder) > 2 * BORDER_WIDTH_PX
         /\ Cols(frame[i].noborder) > 2 * BORDER_WIDTH_PX) =>
            LET h == Rows(frame[i].noborder)
                w == Cols(frame[i].noborder)
            IN  /\ Shape(frame[i].edge_img) = <<h, w>>
                /\ \A r \in 1..h : \A c \in 1..w :
                      frame[i].edge_img[r][c] =
                          IF InOuterRing(r, c, h, w, BORDER_WIDTH_PX) THEN 0
                          ELSE frame[i].noborder[r][c]

\* what add_border paints on such an image: the ring one pixel further in
\* (rows and columns 1..width_px from each side), the outermost row and
\* column left as they were
AddBorderPaintsInsetRing ==
    \A i \in Inv :
        (/\ Returned(i) /\ UseBorder(frame[i].enable_border, ADD_BORDER)
         /\ Rows(frame[i].noborder) > 2 * BORDER_WIDTH_PX + 1
         /\ Cols(frame[i].noborder) > 2 * BORDER_WIDTH_PX + 1) =>
            LET h == Rows(frame[i].noborder)
                w == Cols(frame[i].noborder)
            IN  \A r \in 1..h : \A c \in 1..w :
                    frame[i].edge_img[r][c] =
                        IF /\ r \in 2..(h - 1) /\ c \in 2..(w - 1)
                           /\ InOuterRing(r - 1, c - 1, h - 2, w - 2,
                                          BORDER_WIDTH_PX)
                        THEN 0 ELSE frame[i].noborder[r][c]

\* every pixel of img has the one colour (or value)
IsUniform(img) ==
    \A r \in 1..Len(img) : \A c \in 1..Len(img[r]) : img[r][c] = img[1][1]

\* an L image that is a uniform background field: one value, no pixel in
\* the line mask
IsBackgroundField(img) ==
    IsUniform(img) /\ ~AnyTrue(LineMask(GrayToFloat(img)))

\* C6: for every uniform single-colour input image (pure red and pure green
\* included) the red/green adjacency coverage is exactly 0 at every column,
\* detect_vertical_red_green_borders returns the empty list, no pixel is
\* classified both red and green, and the pipeline output is a uniform
\* background field: the edge map has no line pixels, the equalizer returns
\* early and the separator stage injects nothing, both leaving the image
\* unchanged, and that field is the image returned when the frame is off.
C6_FlatColourInput ==
    \A i \in Inv :
        LET f == frame[i]
        IN  (f.pc # "idle" /\ IsUniform(f.img_in)) =>
              /\ \A x \in 1..(Cols(f.img_in) - 1) : MatchCount(f.img_in, x) = 0
              /\ detect_vertical_red_green_borders(f.img_in) = <<>>
              /\ \A r \in 1..Rows(f.img_in) : \A c \in 1..Cols(f.img_in) :
                    ~(IsRed(f.img_in[r][c]) /\ IsGreen(f.img_in[r][c]))
              /\ f.pc \notin InEqualizer
              /\ f.pc \in {"normalize", "separator", "border"} =>
                    IsBackgroundField(f.edge_img)
              /\ f.pc \in {"separator", "border", "done"} =>
                    f.eq_out = f.eq_in
              /\ f.pc = "border" =>
                    f.positions = <<>> /\ f.edge_img = f.sep_in
              /\ Returned(i) =>
                    /\ f.positions = <<>>
                    /\ f.noborder = f.sep_in
                    /\ IsBackgroundField(f.noborder)
                    /\ ~UseBorder(f.enable_border, ADD_BORDER) =>
                          f.edge_img = f.noborder

\* the pipeline has returned, the frame off, on a pure red image of more
\* than one row and column
C6_Witness ==
    \E i \in Inv :
        /\ Returned(i)
        /\ IsUniform(frame[i].img_in)
        /\ frame[i].img_in[1][1] = RED
        /\ Rows(frame[i].img_in) > 1 /\ Cols(frame[i].img_in) > 1
        /\ ~UseBorder(frame[i].enable_border, ADD_BORDER)

\* every pixel of the RGB image img has R = G = B
IsDesaturated(img) ==
    \A r \in 1..Len(img) : \A c \in 1..Len(img[r]) :
        img[r][c][1] = img[r][c][2] /\ img[r][c][2] = img[r][c][3]

AllZero(a) == \A r \in 1..Len(a) : \A c \in 1..Len(a[r]) : a[r][c] = 0

\* C7: for every fully desaturated input (R = G = B at every pixel) the
\* saturation is 0 at every pixel, the hue boost is 0 at every pixel, and
\* the combined gradient is the luminance gradient term alone.
C7_DesaturatedNoBoost ==
    \A i \in Inv :
        LET f == frame[i]
        IN  (f.pc # "idle" /\ IsDesaturated(f.img_in)) =>
              /\ AllZero(rgb_to_hs(f.img_in).s)
              /\ f.pc \in AfterEdgeMap =>
                    /\ IsDesaturated(f.img_color)
                    /\ Shape(f.locals.sat) = Shape(f.img_in)
                    /\ AllZero(f.locals.sat)
                    /\ Shape(f.locals.boost) = Shape(f.img_in)
                    /\ AllZero(f.locals.boost)
                    /\ f.locals.grad = f.locals.grad_lum

\* the edge map of a desaturated image with a luminance edge was computed
C7_Witness ==
    \E i \in Inv :
        /\ frame[i].pc \in AfterEdgeMap
        /\ IsDesaturated(frame[i].img_in)
        /\ ~AllZero(frame[i].locals.grad_lum)

\* invocation i has ended: it returned or a stage raised
Ended(i) == Returned(i) \/ Raised(i)

\* what the caller of invocation i gets: the stage that raised, if one did,
\* and the image returned
Outcome(i) ==
    [raised |-> frame[i].raised,
     img    |-> IF Returned(i) THEN frame[i].edge_img ELSE <<>>]

SameCall(i, j) ==
    /\ frame[i].img_in = frame[j].img_in
    /\ frame[i].style = frame[j].style
    /\ frame[i].enable_border = frame[j].enable_border

\* two invocations given the same image and the same configuration that
\* have ended have the same outcome, and the outcome of an invocation is
\* the function run_edge_pipeline of its own arguments and of the
\* configuration of the module as imported
SameCallSameOutcome ==
    \A i \in Inv :
        Ended(i) =>
            /\ \A j \in Inv : (Ended(j) /\ SameCall(i, j)) =>
                  Outcome(i) = Outcome(j)
            /\ Outcome(i) =
                  run_edge_pipeline(
                      apply_line_style(frame[i].img_in, frame[i].style),
                      frame[i].enable_border, ADD_BORDER_AT_IMPORT, pillow)

\* a step of an invocation writes neither the module state a later
\* invocation reads (ADD_BORDER) nor the arguments of any invocation, its
\* input image among them
WritesNoSharedState ==
    /\ ADD_BORDER' = ADD_BORDER
    /\ pillow' = pillow
    /\ \A i \in Inv :
          /\ frame'[i].img_in = frame[i].img_in
          /\ frame'[i].style = frame[i].style
          /\ frame'[i].enable_border = frame[i].enable_border

\* C8: run_edge_pipeline is deterministic and stateless: two invocations
\* with the same input image and the same configuration produce identical
\* outputs whichever other invocations ran before them or interleave with
\* them, and an invocation neither modifies its input image nor writes any
\* state a later invocation reads.
C8_DeterministicStateless ==
    []SameCallSameOutcome /\ [][WritesNoSharedState]_vars

\* two invocations of the same call, which reads ADD_BORDER (enable_border
\* is None), have both returned an image with a separator injected
C8_Witness ==
    \E i \in Inv, j \in Inv :
        /\ i # j
        /\ SameCall(i, j)
        /\ frame[i].enable_border = "none"
        /\ Returned(i) /\ Returned(j)
        /\ frame[i].positions # <<>>

\* the stages in their order: the pre-filter, the edge map, the equalizer
\* (its entry, its four passes, its return), the separator injection, the
\* frame
StageOrder ==
    <<"prefilter", "edge_map", "normalize", "passA", "passB", "passC",
      "passD", "eq_return", "separator", "border">>

Rank(tag) == CHOOSE k \in 1..Len(StageOrder) : StageOrder[k] = tag

\* trace[j] for every j, as a set
Ran(i) == {frame[i].trace[j] : j \in 1..Len(frame[i].trace)}

C10_BackgroundUntouched ==
    \A i \in Inv :
        LET f == frame[i]
        IN  /\ f.pc \in InEqualizer =>
                  \A r \in 1..Rows(f.arr) : \A c \in 1..Cols(f.arr) :
                      ToFloat(f.eq_in[r][c]) >= LINE_MASK_THRESH =>
                          f.arr[r][c] = ToFloat(f.eq_in[r][c])
            /\ f.pc \in {"separator", "border", "done"} =>
                  /\ Shape(f.eq_out) = Shape(f.eq_in)
                  /\ \A r \in 1..Rows(f.eq_in) : \A c \in 1..Cols(f.eq_in) :
                        ToFloat(f.eq_in[r][c]) >= LINE_MASK_THRESH =>
                            f.eq_out[r][c] = f.eq_in[r][c]
                  /\ (\A r \in 1..Rows(f.eq_in) : \A c \in 1..Cols(f.eq_in) :
                         ToFloat(f.eq_in[r][c]) >= LINE_MASK_THRESH)
                     => f.eq_out = f.eq_in

\* the equalizer has returned an image in which it changed a line pixel,
\* given one with a background pixel that is not white
C10_Witness ==
    \E i \in Inv :
        /\ frame[i].pc = "separator"
        /\ frame[i].eq_out # frame[i].eq_in
        /\ \E r \in 1..Rows(frame[i].eq_in), c \in 1..Cols(frame[i].eq_in) :
              /\ ToFloat(frame[i].eq_in[r][c]) >= LINE_MASK_THRESH
              /\ frame[i].eq_in[r][c] < 255


\* the separator stage has injected at least one band in invocation i
Injected(i) == frame[i].pc = "border" /\ frame[i].positions # <<>>

\* C11: the value used for injected separator lines is the median of the
\* line-mask values minus 0.005 (51 units) when at least one pixel is below
\* the line-mask threshold, and 0.34 (3468 units) when no line pixel exists.
C11_TargetAsClaimed ==
    \A i \in Inv :
        Injected(i) =>
            LET arr  == GrayToFloat(frame[i].sep_in)
                mask == LineMask(arr)
            IN  frame[i].target_val =
                    IF AnyTrue(mask) THEN Median(LineVals(arr, mask)) - 51
                    ELSE 3468

\* C11 as amended: the value is max(0, median - 0.005) when at least one
\* pixel is below the line-mask threshold, and 0.34 - 0.005 = 0.335 (3417
\* units) when no line pixel exists.
C11_TargetValue ==
    \A i \in Inv :
        Injected(i) =>
            LET arr  == GrayToFloat(frame[i].sep_in)
                mask == LineMask(arr)
                m    == Median(LineVals(arr, mask))
            IN  frame[i].target_val =
                    IF AnyTrue(mask)
                    THEN (IF m - 51 < 0 THEN 0 ELSE m - 51)
                    ELSE 3417

\* bands were injected into an edge image with line pixels, the median of
\* which is at least 0.005
C11_Witness ==
    \E i \in Inv :
        /\ Injected(i)
        /\ AnyTrue(LineMask(GrayToFloat(frame[i].sep_in)))
        /\ frame[i].target_val > 0

\* bands were injected into an edge image with no line pixel
NoLinePixelsInjected ==
    \E i \in Inv :
        /\ Injected(i)
        /\ ~AnyTrue(LineMask(GrayToFloat(frame[i].sep_in)))

\* column c (1-based cell) of an image w wide lies in the band of one of
\* the separators `positions`
InBand(c, positions, w) ==
    \E k \in 1..Len(positions) :
    \E dx \in (-(RG_LINE_WIDTH \div 2))..(RG_LINE_WIDTH \div 2) :
        c - 1 = Clip(positions[k] + dx, 0, w - 1)

\* C12: separator injection writes min(current, target) into every pixel of
\* each injected band and nothing else: after add_soft_red_green_lines every
\* band pixel is <= its previous value and <= target, every pixel outside
\* all bands is unchanged, and with no separator detected the image is
\* returned unchanged.
C12_BandMinOnly ==
    \A i \in Inv :
        frame[i].pc = "border" =>
            LET old == frame[i].sep_in
                new == frame[i].edge_img
                pos == frame[i].positions
                t   == frame[i].target_val
            IN  /\ Shape(new) = Shape(old)
                /\ pos = <<>> => new = old
                /\ pos # <<>> =>
                     \A r \in 1..Rows(old) : \A c \in 1..Cols(old) :
                        IF InBand(c, pos, Cols(old))
                        THEN /\ new[r][c] = ToUint8(Min2(ToFloat(old[r][c]), t))
                             /\ new[r][c] <= old[r][c]
                             /\ ToFloat(new[r][c]) <= t
                        ELSE new[r][c] = old[r][c]

\* a band was injected that lowered a pixel, while a line pixel outside the
\* band kept its value
C12_Witness ==
    \E i \in Inv :
        /\ Injected(i)
        /\ \E r \in 1..Rows(frame[i].sep_in), c \in 1..Cols(frame[i].sep_in) :
              /\ InBand(c, frame[i].positions, Cols(frame[i].sep_in))
              /\ frame[i].edge_img[r][c] < frame[i].sep_in[r][c]
        /\ \E r \in 1..Rows(frame[i].sep_in), c \in 1..Cols(frame[i].sep_in) :
              /\ ~InBand(c, frame[i].positions, Cols(frame[i].sep_in))
              /\ frame[i].sep_in[r][c] < 252

\* a band was injected over a pixel darker than the target, which it kept
BandKeepsDarkerPixel ==
    \E i \in Inv :
        /\ Injected(i)
        /\ \E r \in 1..Rows(frame[i].sep_in), c \in 1..Cols(frame[i].sep_in) :
              /\ InBand(c, frame[i].positions, Cols(frame[i].sep_in))
              /\ frame[i].edge_img[r][c] = frame[i].sep_in[r][c]
              /\ ToFloat(frame[i].sep_in[r][c]) < frame[i].target_val


(***************************************************************************)
(* Claims about credits_manager.py                                         *)
(***************************************************************************)
\* the record of user_id in the credit store `store`, as loaded
Stored(store, user_id) == _load_user_record(store, user_id)

\* last_free_refill as it is saved: None and '' both mean no refill yet
RefillDate(record) ==
    IF record.last_free_refill \in {NONE, ""} THEN ""
    ELSE record.last_free_refill

\* the last call completed is a call of the credit function op
CreditCall(op) == last_call.op = op

\* the users whose credits the last call was not about are as before it
OthersUntouched ==
    \A k \in DOMAIN last_call.before :
        k # _make_key(last_call.user_id) =>
            k \in DOMAIN _in_memory_store
            /\ _in_memory_store[k] = last_call.before[k]

\* C13: consume_credit_or_fail consumes exactly one credit with paid
\* priority: on the refreshed record, with paid_credits > 0 it takes one
\* paid credit and leaves free_credits as they are; otherwise with
\* free_credits > 0 it takes one free credit; otherwise it raises
\* NoCreditsError and the stored counters are as before the call.  No
\* counter is ever negative.
C13_ConsumeOnePaidFirst ==
    /\ \A k \in DOMAIN _in_memory_store :
          _in_memory_store[k].paid_credits >= 0
          /\ _in_memory_store[k].free_credits >= 0
    /\ CreditCall("consume_credit_or_fail") =>
          LET u   == last_call.user_id
              b   == Stored(last_call.before, u)
              ref == refresh_free_credits(last_call.before, u,
                                          last_call.today).record
              a   == Stored(_in_memory_store, u)
          IN  /\ OthersUntouched
              /\ ref.paid_credits > 0 =>
                    /\ last_call.raised = ""
                    /\ a.paid_credits = ref.paid_credits - 1
                    /\ a.free_credits = ref.free_credits
              /\ (ref.paid_credits = 0 /\ ref.free_credits > 0) =>
                    /\ last_call.raised = ""
                    /\ a.paid_credits = 0
                    /\ a.free_credits = ref.free_credits - 1
              /\ (ref.paid_credits = 0 /\ ref.free_credits = 0) =>
                    /\ last_call.raised = "NoCreditsError"
                    /\ a.paid_credits = b.paid_credits
                    /\ a.free_credits = b.free_credits

\* a consume has taken a paid credit of a user who also holds free credits
C13_Witness ==
    /\ CreditCall("consume_credit_or_fail")
    /\ last_call.raised = ""
    /\ Stored(last_call.before, last_call.user_id).paid_credits > 0
    /\ Stored(_in_memory_store, last_call.user_id).free_credits > 0

\* a consume has raised NoCreditsError
ConsumeRefused ==
    CreditCall("consume_credit_or_fail") /\ last_call.raised # ""

\* a consume has taken a free credit
ConsumeTookFree ==
    /\ CreditCall("consume_credit_or_fail")
    /\ last_call.raised = ""
    /\ Stored(last_call.before, last_call.user_id).paid_credits = 0

\* the last call completed is a call of a credit function that refreshes
RefreshingCall ==
    \/ last_call.op \in {"refresh_free_credits", "get_credit_status",
                         "consume_credit_or_fail"}
    \/ last_call.op = "add_paid_credits" /\ last_call.amount <= 0

\* the last call was made when a refill was due: no paid credits, and the
\* last refill not of the day of the call
RefillDue ==
    LET b == Stored(last_call.before, last_call.user_id)
    IN  b.paid_credits = 0 /\ b.last_free_refill # last_call.today

\* C14: free credits do not stack: in every state reachable by calls of
\* refresh_free_credits, consume_credit_or_fail, add_paid_credits and
\* get_credit_status over the days, 0 <= free_credits <= 5 for every user;
\* a refill sets free_credits to exactly 5 whatever was left over (a consume
\* then takes one of the 5).
C14_FreeCreditsDoNotStack ==
    /\ \A k \in DOMAIN _in_memory_store :
          /\ 0 <= _in_memory_store[k].free_credits
          /\ _in_memory_store[k].free_credits <= 5
    /\ (RefreshingCall /\ RefillDue) =>
          Stored(_in_memory_store, last_call.user_id).free_credits =
              IF last_call.op = "consume_credit_or_fail" THEN 4 ELSE 5

\* a refill has found free credits left over from an earlier day
C14_Witness ==
    /\ last_call.op \in {"refresh_free_credits", "get_credit_status"}
    /\ RefillDue
    /\ Stored(last_call.before, last_call.user_id).free_credits \in 1..4
    /\ Stored(_in_memory_store, last_call.user_id).free_credits = 5

\* the last call completed is a call of one of the four credit functions
AnyCreditCall ==
    last_call.op \in {"refresh_free_credits", "get_credit_status",
                      "consume_credit_or_fail", "add_paid_credits"}

\* C15: free credits are refilled at most once per user per calendar day
\* and never while the user holds paid credits: a call raises free_credits
\* or changes last_free_refill only when paid_credits = 0 and
\* last_free_refill differs from the date of the call, and it then records
\* that date; a call on the date recorded (in any order with consume and
\* add_paid_credits) neither raises free_credits nor changes the date; the
\* date recorded is never ahead of the clock.
C15_RefillOncePerDay ==
    /\ \A k \in DOMAIN _in_memory_store :
          _in_memory_store[k].last_free_refill \in
              {""} \cup {IsoDate(d) : d \in 0..((now + tz_minutes)
                                                \div MinutesPerDay)}
    /\ AnyCreditCall =>
          LET b == Stored(last_call.before, last_call.user_id)
              a == Stored(_in_memory_store, last_call.user_id)
          IN  /\ (a.free_credits > b.free_credits
                  \/ RefillDate(a) # RefillDate(b)) =>
                     /\ b.paid_credits = 0
                     /\ b.last_free_refill # last_call.today
                     /\ a.last_free_refill = last_call.today
              /\ b.last_free_refill = last_call.today =>
                     /\ a.free_credits <= b.free_credits
                     /\ a.last_free_refill = b.last_free_refill
              /\ b.paid_credits > 0 =>
                     /\ a.free_credits = b.free_credits
                     /\ RefillDate(a) = RefillDate(b)

\* a refresh on the day of the last refill has found fewer than 5 free
\* credits and no paid ones, and has not refilled
C15_Witness ==
    /\ last_call.op \in {"refresh_free_credits", "get_credit_status"}
    /\ Stored(last_call.before, last_call.user_id).last_free_refill
           = last_call.today
    /\ Stored(last_call.before, last_call.user_id).paid_credits = 0
    /\ Stored(last_call.before, last_call.user_id).free_credits < 5
    /\ Stored(_in_memory_store, last_call.user_id)
           = Stored(last_call.before, last_call.user_id)
    /\ now > 0

\* a refill was skipped on a new day because the user holds paid credits
NoRefillWhilePaid ==
    /\ AnyCreditCall
    /\ Stored(last_call.before, last_call.user_id).paid_credits > 0
    /\ Stored(last_call.before, last_call.user_id).last_free_refill
           \notin {NONE, "", last_call.today}

\* the paid credits of every user are at least what they were before the
\* step, unless the step is a consume call for that user
PaidDecreasedOnlyByConsume ==
    \A u \in CreditUsers :
        Stored(_in_memory_store', u).paid_credits
            < Stored(_in_memory_store, u).paid_credits
        => /\ last_call'.op = "consume_credit_or_fail"
           /\ last_call'.user_id = u
           /\ last_call'.raised = ""

\* what add_paid_credits has done to the record of its user
AddPaidCreditsEffect ==
    CreditCall("add_paid_credits") =>
        LET b == Stored(last_call.before, last_call.user_id)
            a == Stored(_in_memory_store, last_call.user_id)
        IN  /\ OthersUntouched
            /\ last_call.amount > 0 =>
                  /\ a.paid_credits = b.paid_credits + last_call.amount
                  /\ a.free_credits = b.free_credits
                  /\ RefillDate(a) = RefillDate(b)
            /\ last_call.amount <= 0 => a.paid_credits = b.paid_credits

\* C16: add_paid_credits(user, amount) with amount > 0 raises the user's
\* paid_credits by exactly amount and leaves free_credits and
\* last_free_refill as they are; with amount <= 0 it leaves paid_credits as
\* they are.  Paid credits are decreased by consume_credit_or_fail only:
\* no other call and no passage of days lowers them.
C16_AddPaidCredits ==
    []AddPaidCreditsEffect /\ [][PaidDecreasedOnlyByConsume]_vars

\* paid credits were added, on a later day, to a user with free credits and
\* paid credits of an earlier grant
C16_Witness ==
    /\ CreditCall("add_paid_credits")
    /\ last_call.amount > 0
    /\ Stored(last_call.before, last_call.user_id).paid_credits > 0
    /\ Stored(last_call.before, last_call.user_id).free_credits > 0
    /\ Stored(last_call.before, last_call.user_id).last_free_refill
           \notin {NONE, "", last_call.today}

(***************************************************************************)
(* Claims about the HTTP handlers                                          *)
(***************************************************************************)
\* the last request completed was sent to the handler op
Request(op) == last_call.op = op

\* the counters of the user of the last request when refresh_free_credits
\* has run on the record the request found
RefreshedBefore ==
    LET b == Stored(last_call.before, last_call.user_id)
    IN  [paid_credits |-> b.paid_credits,
         free_credits |-> IF b.paid_credits = 0
                             /\ b.last_free_refill # last_call.today
                          THEN 5 ELSE b.free_credits]

\* C17: /edge charges exactly one credit per request it accepts and
\* refuses without credits: when the authenticated user has neither paid
\* nor free credits after the refresh, the answer is 402 NO_CREDITS, the
\* pipeline is not run and no counter changes; otherwise exactly one
\* credit is deducted, a paid one when there is one, else a free one.
\* Nobody else's record changes, and a request that is not authenticated
\* changes none.
C17_EdgeChargesOneCredit ==
    Request("process_edge") =>
        LET r == RefreshedBefore
            b == Stored(last_call.before, last_call.user_id)
            a == Stored(_in_memory_store, last_call.user_id)
        IN  /\ OthersUntouched
            /\ last_call.status \in {401, 403} =>
                  /\ _in_memory_store = last_call.before
                  /\ ~last_call.pipeline_ran
            /\ last_call.status \notin {401, 403} =>
                  IF r.paid_credits = 0 /\ r.free_credits = 0
                  THEN /\ last_call.status = 402
                       /\ last_call.detail = "NO_CREDITS"
                       /\ ~last_call.pipeline_ran
                       /\ a.paid_credits = b.paid_credits
                       /\ a.free_credits = b.free_credits
                  ELSE /\ last_call.status \in {200, 500}
                       /\ a.paid_credits + a.free_credits
                              = r.paid_credits + r.free_credits - 1
                       /\ IF r.paid_credits > 0
                          THEN /\ a.paid_credits = r.paid_credits - 1
                               /\ a.free_credits = r.free_credits
                          ELSE /\ a.paid_credits = 0
                               /\ a.free_credits = r.free_credits - 1

\* an image was processed for a user holding paid and free credits, and a
\* paid credit was taken
C17_Witness ==
    /\ Request("process_edge")
    /\ last_call.status = 200
    /\ last_call.pipeline_ran
    /\ Stored(last_call.before, last_call.user_id).paid_credits > 0
    /\ Stored(last_call.before, last_call.user_id).free_credits > 0
    /\ Stored(_in_memory_store, last_call.user_id).paid_credits
           = Stored(last_call.before, last_call.user_id).paid_credits - 1

\* /edge has refused a user whose credits are used up
EdgeRefused ==
    /\ Request("process_edge")
    /\ last_call.status = 402
    /\ Stored(last_call.before, last_call.user_id).last_free_refill
           = last_call.today

\* /edge has taken the first free credit of a day's refill
EdgeTookFreeOfRefill ==
    /\ Request("process_edge")
    /\ last_call.status = 200
    /\ Stored(last_call.before, last_call.user_id).free_credits < 4
    /\ Stored(_in_memory_store, last_call.user_id).free_credits = 4

\* the last webhook request carried everything a grant needs: the right
\* signature, the event type, a known plan and a user_id
GrantDue ==
    /\ last_call.sig_header = "STRIPE_WEBHOOK_SECRET"
    /\ last_call.payload.type = "checkout.session.completed"
    /\ last_call.payload.metadata.plan_id \in {"bronze", "silver", "gold"}
    /\ last_call.payload.metadata.user_id \notin {NONE, ""}

\* the credits of the plans
PlanCredits(plan_id) ==
    CASE plan_id = "bronze" -> 50
      [] plan_id = "silver" -> 250
      [] plan_id = "gold"   -> 500

\* C18: the Stripe webhook grants paid credits only to a request with a
\* valid signature, event type checkout.session.completed, plan_id bronze,
\* silver or gold and a non-empty user_id in the metadata; it then adds
\* exactly 50, 250 or 500 paid credits to that user_id and changes nothing
\* else.  In every other case (signature missing or invalid, another event
\* type, unknown or missing plan, missing or empty user_id, a legacy
\* client_id alone) no record of the credit store changes.
C18_WebhookGrants ==
    Request("stripe_webhook") =>
        IF GrantDue
        THEN LET u == last_call.payload.metadata.user_id
                 b == Stored(last_call.before, u)
                 a == Stored(_in_memory_store, u)
             IN  /\ a.paid_credits = b.paid_credits
                        + PlanCredits(last_call.payload.metadata.plan_id)
                 /\ a.free_credits = b.free_credits
                 /\ RefillDate(a) = RefillDate(b)
                 /\ DOMAIN _in_memory_store
                        = DOMAIN last_call.before \cup {_make_key(u)}
                 /\ \A k \in DOMAIN last_call.before :
                        k # _make_key(u) =>
                            _in_memory_store[k] = last_call.before[k]
        ELSE _in_memory_store = last_call.before

\* silver was granted to a user with paid credits of an earlier purchase,
\* one of them spent, while another user holds credits too
C18_Witness ==
    /\ Request("stripe_webhook")
    /\ GrantDue
    /\ last_call.payload.metadata.plan_id = "silver"
    /\ Stored(last_call.before,
              last_call.payload.metadata.user_id).paid_credits = 49
    /\ Stored(_in_memory_store,
              last_call.payload.metadata.user_id).paid_credits = 299
    /\ Cardinality(DOMAIN _in_memory_store) = 2

\* a validly signed checkout.session.completed event with a legacy
\* client_id and no user_id was answered and nothing was credited
LegacyClientIdIgnored ==
    /\ Request("stripe_webhook")
    /\ last_call.sig_header = "STRIPE_WEBHOOK_SECRET"
    /\ last_call.payload.metadata.client_id # NONE
    /\ last_call.status = 200
    /\ last_call.before # EmptyDict

\* a request with a signature of another secret was answered 400 while
\* the users hold credits
ForgedSignatureRefused ==
    /\ Request("stripe_webhook")
    /\ last_call.sig_header = "forged"
    /\ last_call.payload.metadata.plan_id = "gold"
    /\ last_call.status = 400
    /\ last_call.before # EmptyDict

\* user_id is an account with deleted_at set in the user store `users`
IsDeleted(users, user_id) ==
    user_id \in DOMAIN users /\ users[user_id].deleted_at # NoTime

\* the bearer token of the last request is one the service handed out and
\* had not expired at the time of the request
TokenAccepted ==
    /\ last_call.token.sig = "JWT_SECRET_KEY"
    /\ last_call.token.exp >= last_call.at

\* deleted_at, once set, is set after every step
DeletedStaysDeleted ==
    \A u \in DOMAIN _user_store :
        IsDeleted(_user_store, u) => IsDeleted(_user_store', u)

\* what the last request has been answered, as far as deletion goes
DeletionRespected ==
    /\ Request("delete_own_account") =>
          LET u == last_call.token.sub
          IN  /\ last_call.status = 200 =>
                    /\ last_call.confirmation_text = "Delete"
                    /\ ~IsDeleted(last_call.users, u)
                    /\ IsDeleted(_user_store, u)
              /\ last_call.confirmation_text # "Delete" =>
                    /\ last_call.status # 200
                    /\ _user_store = last_call.users
                    /\ (TokenAccepted /\ u \in DOMAIN last_call.users
                        /\ ~IsDeleted(last_call.users, u))
                       => last_call.status = 400
    /\ (/\ Request("read_me") \/ Request("delete_own_account")
        /\ last_call.token.sig = "JWT_SECRET_KEY"
        /\ IsDeleted(last_call.users, last_call.token.sub))
       => /\ last_call.status = IF TokenAccepted THEN 403 ELSE 401
          /\ _user_store = last_call.users
    /\ (/\ Request("login")
        /\ \E u \in DOMAIN last_call.users :
              /\ IsDeleted(last_call.users, u)
              /\ last_call.users[u].email = NormalizeEmail(last_call.email))
       => /\ last_call.status = 403
          /\ _user_store = last_call.users
    /\ (/\ Request("signup")
        /\ \E u \in DOMAIN last_call.users :
              /\ IsDeleted(last_call.users, u)
              /\ last_call.users[u].email = NormalizeEmail(last_call.email))
       => /\ last_call.status = 400
          /\ _user_store = last_call.users

DeletedAccountPasswordReset ==
    /\ Request("reset_password")
    /\ last_call.status = 200
    /\ \E u \in DOMAIN _user_store :
          /\ IsDeleted(last_call.users, u)
          /\ IsDeleted(_user_store, u)
          /\ _user_store[u].password_hash # last_call.users[u].password_hash

\* a login with the password of a deleted account, the address spelled
\* with a capital, was answered 403
DeletedAccountLoginRefused ==
    /\ Request("login")
    /\ last_call.status = 403
    /\ last_call.email = <<"A", "@", "x">>

\* a sign-up with the address of a deleted account was answered 400
DeletedAddressNotReusable ==
    /\ Request("signup")
    /\ last_call.status = 400
    /\ \E u \in DOMAIN _user_store :
          /\ IsDeleted(_user_store, u)
          /\ _user_store[u].email = NormalizeEmail(last_call.email)

\* a deletion with the text "delete" was answered 400
WrongConfirmationRefused ==
    /\ Request("delete_own_account")
    /\ last_call.confirmation_text = "delete"
    /\ last_call.status = 400

\* an expired access token of a deleted account was answered 401
ExpiredTokenOfDeletedAccount ==
    /\ Request("read_me")
    /\ last_call.token.sig = "JWT_SECRET_KEY"
    /\ ~TokenAccepted
    /\ IsDeleted(_user_store, last_call.token.sub)
    /\ last_call.status = 401

\* C20: after a successful delete-account request all credits of that
\* user are cleared: the stored paid_credits and free_credits of the user
\* are both 0.
C20_CreditsCleared ==
    (Request("delete_own_account") /\ last_call.status = 200) =>
        /\ Stored(_in_memory_store, last_call.token.sub).paid_credits = 0
        /\ Stored(_in_memory_store, last_call.token.sub).free_credits = 0

\* what delete_own_account does to the credits: the record of every user
\* is the record the request found
DeleteLeavesCredits ==
    Request("delete_own_account") => _in_memory_store = last_call.before

\* an account holding paid and free credits was deleted, and holds them
\* still
DeletedWithCreditsKept ==
    /\ Request("delete_own_account")
    /\ last_call.status = 200
    /\ Stored(_in_memory_store, last_call.token.sub).paid_credits > 0
    /\ Stored(_in_memory_store, last_call.token.sub).free_credits > 0

\* the record of the minting of the reset token of the last request, if
\* request-password-reset has minted it
Minted(token) == {tok \in issued : tok.sig = "reset" /\ tok.n = token}

\* the token of the last reset-password request was minted, has not been
\* removed from the token store and was at most 30 minutes old
ResetTokenGood ==
    /\ last_call.token \in DOMAIN last_call.tokens
    /\ \E tok \in Minted(last_call.token) :
          last_call.at - (tok.exp - PASSWORD_RESET_TOKEN_EXPIRE_MINUTES) <= 30

\* what the last reset-password request was answered and has done
ResetPasswordEffect ==
    Request("reset_password") =>
        /\ last_call.status \in {200, 400}
        /\ Len(last_call.new_password) < 8 =>
              /\ last_call.status = 400
              /\ _user_store = last_call.users
              /\ _password_reset_tokens = last_call.tokens
        /\ last_call.status = 200 =>
              /\ ResetTokenGood
              /\ last_call.token \notin DOMAIN _password_reset_tokens
              /\ LET u == last_call.tokens[last_call.token].user_id
                 IN  /\ \E tok \in Minted(last_call.token) : tok.sub = u
                     /\ _user_store[u].password_hash
                            = hash_password(last_call.new_password)
                     /\ \A v \in DOMAIN _user_store \ {u} :
                            _user_store[v] = last_call.users[v]
        /\ ~ResetTokenGood =>
              /\ last_call.status = 400
              /\ _user_store = last_call.users
        /\ last_call.status = 400 => _user_store = last_call.users

\* a reset token that has been minted and is no longer in the token store
\* (used in a successful reset, or found expired) never comes back, and a
\* token in the store is as it was minted
SpentTokenStaysSpent ==
    /\ \A token \in 1..ResetTokensMinted :
          token \notin DOMAIN _password_reset_tokens
          => token \notin DOMAIN _password_reset_tokens'
    /\ \A token \in DOMAIN _password_reset_tokens' :
          \E tok \in issued' :
              /\ tok.sig = "reset" /\ tok.n = token
              /\ tok.sub = _password_reset_tokens'[token].user_id
              /\ tok.exp = _password_reset_tokens'[token].expires_at

\* C21: a password-reset token is single-use and time-limited.
\* reset-password changes the password only if the token was minted by
\* request-password-reset, has not been used in a successful reset and is
\* at most 30 minutes old; after a successful reset, or after expiry, every
\* further reset-password call with the token is answered 400 and leaves
\* every password hash unchanged.  A new password shorter than 8
\* characters is answered 400 and the token is not consumed.
C21_ResetTokenSingleUse ==
    []ResetPasswordEffect /\ [][SpentTokenStaysSpent]_vars

\* a token exactly 30 minutes old has changed the password, while another
\* token of the same account is still in the store
C21_Witness ==
    /\ Request("reset_password")
    /\ last_call.status = 200
    /\ last_call.at = last_call.tokens[last_call.token].expires_at
    /\ _password_reset_tokens # EmptyDict

\* a token used in a successful reset was presented again and refused
UsedTokenRefused ==
    /\ Request("reset_password")
    /\ last_call.status = 400
    /\ Len(last_call.new_password) >= 8
    /\ Minted(last_call.token) # {}
    /\ last_call.token \notin DOMAIN last_call.tokens
    /\ \A tok \in Minted(last_call.token) : last_call.at <= tok.exp

\* an expired token was presented, refused and removed
ExpiredTokenRefused ==
    /\ Request("reset_password")
    /\ last_call.status = 400
    /\ last_call.token \in DOMAIN last_call.tokens
    /\ last_call.at > last_call.tokens[last_call.token].expires_at
    /\ last_call.token \notin DOMAIN _password_reset_tokens

\* a short password was refused and the good token presented with it is
\* still in the store
ShortPasswordKeepsToken ==
    /\ Request("reset_password")
    /\ Len(last_call.new_password) < 8
    /\ ResetTokenGood
    /\ last_call.token \in DOMAIN _password_reset_tokens

\* the first quartile and the median of the line values Pass A was given in
\* invocation i
Q1In(i) == Percentile(LineVals(frame[i].pass_in, frame[i].mask_lines), 250)

MedianIn(i) == Median(LineVals(frame[i].pass_in, frame[i].mask_lines))

\* C22: Pass A of soft_normalize_lines.  When median - Q1 >= 1e-4 a line
\* value v < Q1 becomes v + 0.8*(median - v), a value with Q1 <= v < median
\* becomes v + 0.4*(median - v) and a value >= median stays; when
\* median - Q1 < 1e-4 no pixel changes.  So Pass A darkens no pixel and
\* raises none above the median.  (At passB, pass_in is arr on entry of
\* Pass A.)
C22_PassARule ==
    \A i \in Inv :
        frame[i].pc = "passB" =>
            LET f == frame[i]
                q == Q1In(i)
                m == MedianIn(i)
            IN  \A r \in 1..Rows(f.arr) : \A c \in 1..Cols(f.arr) :
                    LET v == f.pass_in[r][c]
                        w == f.arr[r][c]
                    IN  /\ ~f.mask_lines[r][c] => w = v
                        /\ f.mask_lines[r][c] =>
                              /\ (Ge1e4(m - q) /\ v < q) =>
                                    w = v + (8 * (m - v)) \div 10
                              /\ (Ge1e4(m - q) /\ q <= v /\ v < m) =>
                                    w = v + (4 * (m - v)) \div 10
                              /\ (Ge1e4(m - q) /\ v >= m) => w = v
                              /\ ~Ge1e4(m - q) => w = v
                              /\ w >= v
                              /\ w > v => w <= m

\* Pass A has brightened one pixel below the first quartile and one between
\* the first quartile and the median, and has left one at the median
C22_Witness ==
    \E i \in Inv :
        /\ frame[i].pc = "passB"
        /\ Ge1e4(MedianIn(i) - Q1In(i))
        /\ \E r \in 1..Rows(frame[i].arr), c \in 1..Cols(frame[i].arr) :
              /\ frame[i].mask_lines[r][c]
              /\ frame[i].pass_in[r][c] < Q1In(i)
              /\ frame[i].arr[r][c] > frame[i].pass_in[r][c]
        /\ \E r \in 1..Rows(frame[i].arr), c \in 1..Cols(frame[i].arr) :
              /\ frame[i].mask_lines[r][c]
              /\ frame[i].pass_in[r][c] >= Q1In(i)
              /\ frame[i].pass_in[r][c] < MedianIn(i)
              /\ frame[i].arr[r][c] > frame[i].pass_in[r][c]
        /\ \E r \in 1..Rows(frame[i].arr), c \in 1..Cols(frame[i].arr) :
              /\ frame[i].mask_lines[r][c]
              /\ frame[i].pass_in[r][c] >= MedianIn(i)

\* Pass A was given line values whose median and first quartile coincide
C22_FlatWitness ==
    \E i \in Inv :
        /\ frame[i].pc = "passB"
        /\ ~Ge1e4(MedianIn(i) - Q1In(i))
        /\ \E r \in 1..Rows(frame[i].arr), c \in 1..Cols(frame[i].arr) :
              /\ frame[i].mask_lines[r][c]
              /\ frame[i].pass_in[r][c] < MedianIn(i)

\* pixel (r, c) was in the line mask when invocation i entered the equalizer
LineAtEntry(i, r, c) == ToFloat(frame[i].eq_in[r][c]) < LINE_MASK_THRESH

\* the darkest decile Pass D was given in invocation i: the line values not
\* above the 10th percentile
LowDecileIn(i) ==
    LET vals == LineVals(frame[i].pass_in, frame[i].mask_lines)
        IsLow(v) == v <= Percentile(vals, ULTRA_LOW_PCT)
    IN  SelectSeq(vals, IsLow)

PLowIn(i) ==
    Percentile(LineVals(frame[i].pass_in, frame[i].mask_lines),
               BRIGHT_EQ_LOW_PCT)

PHighIn(i) ==
    Percentile(LineVals(frame[i].pass_in, frame[i].mask_lines),
               BRIGHT_EQ_HIGH_PCT)

\* C24: Pass B brightens toward its target band only: every line pixel whose
\* value Pass B changes ends inside [0.28, 0.34], and no line pixel is raised
\* above 0.34, whatever the line values are.  (At passC, pass_in is arr on
\* entry of Pass B.)
C24_PassBIntoBand ==
    \A i \in Inv :
        frame[i].pc = "passC" =>
            \A r \in 1..Rows(frame[i].arr) : \A c \in 1..Cols(frame[i].arr) :
                (/\ frame[i].mask_lines[r][c]
                 /\ frame[i].arr[r][c] # frame[i].pass_in[r][c]) =>
                    /\ frame[i].arr[r][c] >= BRIGHT_EQ_BASE
                    /\ frame[i].arr[r][c] <= BRIGHT_EQ_BASE + BRIGHT_EQ_RANGE

\* what Pass B does keep: a changed line pixel whose value on entry lay
\* between the two percentiles ends inside the band
PassBInsideRange ==
    \A i \in Inv :
        frame[i].pc = "passC" =>
            \A r \in 1..Rows(frame[i].arr) : \A c \in 1..Cols(frame[i].arr) :
                (/\ frame[i].mask_lines[r][c]
                 /\ frame[i].arr[r][c] # frame[i].pass_in[r][c]
                 /\ frame[i].pass_in[r][c] >= PLowIn(i)
                 /\ frame[i].pass_in[r][c] <= PHighIn(i)) =>
                    /\ frame[i].arr[r][c] >= BRIGHT_EQ_BASE
                    /\ frame[i].arr[r][c] <= BRIGHT_EQ_BASE + BRIGHT_EQ_RANGE

\* Pass B has raised a line pixel that lay above the 95th percentile to a
\* value above 0.34
RaisedAboveBand ==
    \E i \in Inv :
        /\ frame[i].pc = "passC"
        /\ \E r \in 1..Rows(frame[i].arr), c \in 1..Cols(frame[i].arr) :
              /\ frame[i].mask_lines[r][c]
              /\ frame[i].pass_in[r][c] > PHighIn(i)
              /\ frame[i].arr[r][c] > frame[i].pass_in[r][c]
              /\ frame[i].arr[r][c] > BRIGHT_EQ_BASE + BRIGHT_EQ_RANGE

\* Pass B has raised a line pixel to the background range
RaisedToBackground ==
    \E i \in Inv :
        /\ frame[i].pc = "passC"
        /\ \E r \in 1..Rows(frame[i].arr), c \in 1..Cols(frame[i].arr) :
              /\ frame[i].mask_lines[r][c]
              /\ frame[i].arr[r][c] > frame[i].pass_in[r][c]
              /\ frame[i].arr[r][c] >= LINE_MASK_THRESH

\* Pass B has raised a line pixel that lay below the 5th percentile to a
\* value below 0.28
RaisedBelowBand ==
    \E i \in Inv :
        /\ frame[i].pc = "passC"
        /\ \E r \in 1..Rows(frame[i].arr), c \in 1..Cols(frame[i].arr) :
              /\ frame[i].mask_lines[r][c]
              /\ frame[i].arr[r][c] > frame[i].pass_in[r][c]
              /\ frame[i].arr[r][c] < BRIGHT_EQ_BASE

\* the line values invocation i entered the equalizer with
EntryVals(i) ==
    LineVals(GrayToFloat(frame[i].eq_in), frame[i].mask_lines)

\* what Pass B makes of the value v when the percentiles are pl and ph
PassBRule(v, pl, ph) ==
    IF Ge1e4(ph - pl)
    THEN Max2(v, Clip(BRIGHT_EQ_BASE + ((v - pl) * BRIGHT_EQ_RANGE)
                                          \div (ph - pl), 0, ONE))
    ELSE v

\* what Pass D makes of the value v when the darkest decile is low
PassDRule(v, low) ==
    IF v > SeqMax(low) THEN v
    ELSE IF ~Ge1e4(SeqMax(low) - SeqMin(low))
    THEN Max2(v, (ULTRA_BAND_MIN + ULTRA_BAND_MAX) \div 2)
    ELSE Max2(v, ULTRA_BAND_MIN
                 + ((v - SeqMin(low)) * (ULTRA_BAND_MAX - ULTRA_BAND_MIN))
                   \div (SeqMax(low) - SeqMin(low)))

\* in every pass the pixels processed are those of the line mask at entry,
\* and Pass B and Pass D have applied their rule with the percentiles of the
\* line values they were given (pass_in), Pass C the lift and the floor
PassesUseCurrentValues ==
    \A i \in Inv :
        LET f == frame[i]
        IN  f.pc \in InEqualizer =>
              \A r \in 1..Rows(f.arr) : \A c \in 1..Cols(f.arr) :
                  /\ f.mask_lines[r][c] = LineAtEntry(i, r, c)
                  /\ (f.pc = "passC" /\ LineAtEntry(i, r, c)) =>
                        f.arr[r][c] =
                            PassBRule(f.pass_in[r][c], PLowIn(i), PHighIn(i))
                  /\ (f.pc = "passD" /\ LineAtEntry(i, r, c)) =>
                        f.arr[r][c] =
                            Min2(ONE, Max2(f.pass_in[r][c] + GLOBAL_LIFT,
                                           MIN_LINE_BRIGHT))
                  /\ (f.pc = "eq_return" /\ LineAtEntry(i, r, c)) =>
                        f.arr[r][c] =
                            PassDRule(f.pass_in[r][c], LowDecileIn(i))
                  /\ (f.pc \in {"passC", "passD", "eq_return"}
                      /\ ~LineAtEntry(i, r, c)) =>
                        f.arr[r][c] = f.pass_in[r][c]

\* the pass that follows each position of the equalizer
NextPass ==
    [p \in {"passA", "passB", "passC", "passD"} |->
        CASE p = "passA" -> "passB"
          [] p = "passB" -> "passC"
          [] p = "passC" -> "passD"
          [] p = "passD" -> "eq_return"]

\* a step inside the equalizer goes to the next pass in the order A, B, C,
\* D, hands it the array the pass before left, and keeps the line mask
PassesInOrder ==
    \A i \in Inv :
        (frame[i].pc \in DOMAIN NextPass /\ frame'[i] # frame[i]) =>
            /\ frame'[i].pc = NextPass[frame[i].pc]
            /\ frame'[i].pass_in = frame[i].arr
            /\ frame'[i].mask_lines = frame[i].mask_lines
            /\ frame'[i].eq_in = frame[i].eq_in

\* C25: the equalizer passes run in the order A, B, C, D; each of B, C, D
\* works on the line values as the passes before it left them, its
\* percentiles included, not on the values at entry; the line mask is
\* computed once at entry and is the same in all four passes, so a pixel an
\* earlier pass lifted to >= 0.985 is still processed and no pixel joins.
C25_PassesChained == []PassesUseCurrentValues /\ [][PassesInOrder]_vars

\* Pass D has run on line values whose 10th percentile is not that of the
\* values at entry, among them a pixel that Pass C had lifted to >= 0.985,
\* and has changed a pixel
C25_Witness ==
    \E i \in Inv :
        /\ frame[i].pc = "eq_return"
        /\ Percentile(LineVals(frame[i].pass_in, frame[i].mask_lines),
                      ULTRA_LOW_PCT)
              # Percentile(EntryVals(i), ULTRA_LOW_PCT)
        /\ frame[i].arr # frame[i].pass_in
        /\ \E r \in 1..Rows(frame[i].arr), c \in 1..Cols(frame[i].arr) :
              /\ LineAtEntry(i, r, c)
              /\ frame[i].pass_in[r][c] >= LINE_MASK_THRESH

\* Pass B has run on line values that Pass A had changed, with percentiles
\* that are not those of the values at entry
PassBOnChangedValues ==
    \E i \in Inv :
        /\ frame[i].pc = "passC"
        /\ PLowIn(i) # Percentile(EntryVals(i), BRIGHT_EQ_LOW_PCT)
        /\ PHighIn(i) # Percentile(EntryVals(i), BRIGHT_EQ_HIGH_PCT)
        /\ frame[i].arr # frame[i].pass_in

\* the span between the 0.5th and the 99.5th percentile of the ink field
\* the contrast normalizer was given in invocation i
SpanIn(i) ==
    Percentile(Flatten(frame[i].pass_in), 995)
        - Percentile(Flatten(frame[i].pass_in), 5)

\* x > 1e-4 for a float x in units of 1/ONE
Gt1e4(x) == x * 10000 > ONE

\* C26 as stated: the contrast normalizer rescales the ink field onto [0,1]
\* only if the span between its 0.5th and 99.5th percentiles exceeds 1e-4;
\* with a span that is positive but at most 1e-4, or zero, the field is left
\* as it is.
C26_StretchAbove1e4 ==
    \A i \in Inv :
        (frame[i].pc = "stretched" /\ ~Gt1e4(SpanIn(i))) =>
            frame[i].arr = frame[i].pass_in

\* C26, amended: the contrast normalizer rescales the ink field onto [0,1]
\* whenever the span between its 0.5th and 99.5th percentiles is positive,
\* a span of at most 1e-4 included: every value becomes
\* clip((v - low) / (high - low), 0, 1); only with a span of zero is the
\* field left as it is.
C26_StretchWhenPositive ==
    \A i \in Inv :
        frame[i].pc = "stretched" =>
            LET low == Percentile(Flatten(frame[i].pass_in), 5)
            IN  /\ SpanIn(i) = 0 => frame[i].arr = frame[i].pass_in
                /\ SpanIn(i) > 0 =>
                      \A c \in 1..Cols(frame[i].arr) :
                          frame[i].arr[1][c] =
                              Clip(((frame[i].pass_in[1][c] - low) * ONE)
                                       \div SpanIn(i), 0, ONE)

\* a field whose span is positive and below 1e-4 has been rescaled
C26_Witness ==
    \E i \in Inv :
        /\ frame[i].pc = "stretched"
        /\ SpanIn(i) > 0
        /\ ~Gt1e4(SpanIn(i))
        /\ frame[i].arr # frame[i].pass_in

\* the candidate columns of the image the separator stage of invocation i
\* was given, as a set
Candidates(i) ==
    LET positions == CandidateColumns(frame[i].img_color)
    IN  {positions[j] : j \in 1..Len(positions)}

\* the maximal runs of consecutive candidate columns, as pairs <<start, end>>
MaximalRuns(i) ==
    {run \in Candidates(i) \X Candidates(i) :
        /\ run[1] <= run[2]
        /\ \A x \in run[1]..run[2] : x \in Candidates(i)
        /\ run[1] - 1 \notin Candidates(i)
        /\ run[2] + 1 \notin Candidates(i)}

\* C27: detect_vertical_red_green_borders returns exactly one separator per
\* maximal run of consecutive candidate columns, the integer midpoint
\* (start + end) // 2 of the run; so the list returned is strictly
\* increasing, any two separators differ by at least 2, and every separator
\* is itself a candidate column.
C27_OnePerRun ==
    \A i \in Inv :
        frame[i].pc \in {"border", "done"} =>
            LET pos == frame[i].positions
            IN  /\ Len(pos) = Cardinality(MaximalRuns(i))
                /\ {pos[j] : j \in 1..Len(pos)} =
                      {(run[1] + run[2]) \div 2 : run \in MaximalRuns(i)}
                /\ \A j \in 1..(Len(pos) - 1) : pos[j] < pos[j + 1]
                /\ \A j \in 1..Len(pos) : \A k \in 1..Len(pos) :
                      j # k => Abs(pos[j] - pos[k]) >= 2
                /\ \A j \in 1..Len(pos) : pos[j] \in Candidates(i)

\* the detector has returned two separators, the first for a run of two
\* candidate columns, and one separator for a run of three
C27_Witness ==
    \E i \in Inv :
        /\ frame[i].pc = "border"
        /\ Len(frame[i].positions) = 2
        /\ \E run \in MaximalRuns(i) :
              /\ run[2] = run[1] + 1
              /\ frame[i].positions[1] = run[1]

\* the detector has returned the middle column of a run of three
RunOfThree ==
    \E i \in Inv :
        /\ frame[i].pc = "border"
        /\ \E run \in MaximalRuns(i) :
              /\ run[2] = run[1] + 2
              /\ frame[i].positions = <<run[1] + 1>>

\* the number of rows of img in which column x - 1 is red and column x is
\* green, or column x - 1 is green and column x is red (columns counted from
\* 0, as in the source; img[r][c + 1] is the pixel of column c)
AdjacencyRows(img, x) ==
    Cardinality({r \in 1..Rows(img) :
        \/ IsRed(img[r][x]) /\ IsGreen(img[r][x + 1])
        \/ IsGreen(img[r][x]) /\ IsRed(img[r][x + 1])})

\* column x is interior: int(0.02 * W) < x < int(0.98 * W)
Interior(img, x) ==
    /\ (2 * Cols(img)) \div 100 < x
    /\ x < (98 * Cols(img)) \div 100

\* C28: a column x is a separator candidate if and only if it is interior
\* (int(0.02*W) < x < int(0.98*W)) and the fraction of rows in which column
\* x-1 is red and column x green, or column x-1 green and column x red, is
\* >= 0.25, the threshold included; no column of either margin is reported,
\* and an image too narrow to have an interior column yields the empty list.
C28_CandidateIff ==
    \A i \in Inv :
        frame[i].pc \in {"border", "done"} =>
            LET img == frame[i].img_color
                pos == frame[i].positions
            IN  /\ \A x \in 0..(Cols(img) - 1) :
                      x \in Candidates(i) <=>
                          /\ Interior(img, x)
                          /\ 4 * AdjacencyRows(img, x) >= Rows(img)
                /\ \A j \in 1..Len(pos) : Interior(img, pos[j])
                /\ (\A x \in 0..(Cols(img) - 1) : ~Interior(img, x)) =>
                      pos = <<>>

\* the detector has run on an image 50 wide whose only red/green boundary,
\* present in every row, is the margin column x_min = 1, and has reported
\* nothing
C28_Witness ==
    \E i \in Inv :
        /\ frame[i].pc = "border"
        /\ Cols(frame[i].img_color) = WideW
        /\ AdjacencyRows(frame[i].img_color, 1) = Rows(frame[i].img_color)
        /\ frame[i].positions = <<>>

\* a column whose adjacency covers exactly a quarter of the rows is reported
QuarterCoverageReported ==
    \E i \in Inv :
        /\ frame[i].pc = "border"
        /\ \E x \in 1..(Cols(frame[i].img_color) - 1) :
              /\ 4 * AdjacencyRows(frame[i].img_color, x)
                    = Rows(frame[i].img_color)
              /\ frame[i].positions = <<x>>

\* a boundary at the margin column x_max = 49 of an image 50 wide is not
\* reported
RightMarginSilent ==
    \E i \in Inv :
        /\ frame[i].pc = "border"
        /\ Cols(frame[i].img_color) = WideW
        /\ AdjacencyRows(frame[i].img_color, WideW - 1)
              = Rows(frame[i].img_color)
        /\ frame[i].positions = <<>>

\* the boundary of an image 2 wide, too narrow for an interior column, is
\* not reported
NarrowImageSilent ==
    \E i \in Inv :
        /\ frame[i].pc = "border"
        /\ Cols(frame[i].img_color) = 2
        /\ AdjacencyRows(frame[i].img_color, 1) = Rows(frame[i].img_color)
        /\ frame[i].positions = <<>>

\* min(H, W) of the image of invocation i
MinSide(i) == Min2(frame[i].shape[1], frame[i].shape[2])

\* invocation i has computed its sigma
HasSigma(i) == frame[i].pc = "smoothing"

UpperClampAt1152 ==
    \E i \in Inv, j \in Inv :
        /\ HasSigma(i) /\ HasSigma(j)
        /\ MinSide(i) = 1151 /\ frame[i].sigma < 1800
        /\ MinSide(j) = 1152 /\ frame[j].sigma = 1800

\* no call of a credit function is in flight
AllReturned == \A w \in Workers : worker[w].pc = "idle"

\* paid_credits + free_credits of the shared account in the store
Balance ==
    LET record == _load_user_record(_in_memory_store, SharedUser)
    IN  record.paid_credits + record.free_credits

\* C30: credits are conserved under concurrent requests on one account: for
\* every interleaving of consume_credit_or_fail, add_paid_credits and
\* refresh_free_credits calls of concurrent workers on the shared store,
\* the final paid_credits + free_credits is (credits granted + free refills)
\* minus (successful consumes): no credit is spent twice, no granted credit
\* is lost.  (The store starts empty and all calls fall on one day, whose
\* refill of 5 free credits counts once.)
C30_CreditsConserved ==
    AllReturned =>
        Balance = ledger.granted + ledger.refilled - ledger.consumed

\* what the code keeps: the balance is conserved when no call was started
\* while another was in flight
ConservedWithoutOverlap ==
    (AllReturned /\ ~ledger.overlapped) =>
        Balance = ledger.granted + ledger.refilled - ledger.consumed

\* two calls of consume_credit_or_fail have returned a record and the store
\* holds one credit less than before, not two
CreditSpentTwice ==
    /\ AllReturned
    /\ ledger.consumed = 2
    /\ ledger.granted = 0
    /\ Balance = ledger.refilled - 1

\* two grants have returned and the store holds the amount of one
GrantLost ==
    /\ AllReturned
    /\ ledger.granted = 2
    /\ ledger.consumed = 0
    /\ _load_user_record(_in_memory_store, SharedUser).paid_credits = 1

\* calls have returned one after the other: a refill, a grant, a consume
SerialCallsReturned ==
    /\ AllReturned
    /\ ~ledger.overlapped
    /\ ledger.granted > 0 /\ ledger.refilled > 0 /\ ledger.consumed > 0

\* the upload of the last /edge request cannot be decoded, or the pipeline
\* raises for its image
EdgeProcessingFails ==
    \/ ~last_call.upload.opens
    \/ run_edge_pipeline(last_call.upload.img, "none", ADD_BORDER,
                         pillow).raised # ""

\* C31: /edge deducts the credit before the upload is read and processed
\* and never restores it: a request of an authenticated user with a credit
\* whose upload cannot be decoded, or whose image the pipeline fails on, is
\* answered 500 "Processing failed", and the user's credits are one fewer
\* than the request found them (after the day's refresh); only such
\* requests are answered 500.
C31_FailedEdgeKeepsCharge ==
    (/\ Request("process_edge")
     /\ last_call.status \notin {401, 403, 402}) =>
        LET r == RefreshedBefore
            a == Stored(_in_memory_store, last_call.user_id)
        IN  /\ last_call.status = 500 <=> EdgeProcessingFails
            /\ EdgeProcessingFails =>
                  /\ last_call.detail = "Processing failed: "
                  /\ last_call.pipeline_ran = last_call.upload.opens
                  /\ a.paid_credits + a.free_credits
                         = r.paid_credits + r.free_credits - 1
                  /\ a.paid_credits + a.free_credits
                         < r.paid_credits + r.free_credits
                  /\ OthersUntouched

\* an upload that cannot be decoded was answered 500 and cost a paid credit
C31_Witness ==
    /\ Request("process_edge")
    /\ last_call.status = 500
    /\ ~last_call.upload.opens
    /\ Stored(last_call.before, last_call.user_id).paid_credits > 0
    /\ Stored(_in_memory_store, last_call.user_id).paid_credits
           = Stored(last_call.before, last_call.user_id).paid_credits - 1

\* an image the pipeline raised for was answered 500 and cost a free credit
EdgePipelineFailureCharged ==
    /\ Request("process_edge")
    /\ last_call.status = 500
    /\ last_call.upload.opens
    /\ last_call.pipeline_ran
    /\ Stored(last_call.before, last_call.user_id).paid_credits = 0
    /\ Stored(last_call.before, last_call.user_id).last_free_refill
           = last_call.today
    /\ Stored(_in_memory_store, last_call.user_id).free_credits
           = Stored(last_call.before, last_call.user_id).free_credits - 1

(***************************************************************************)
(* Claims about the two modules on one Redis                               *)
(***************************************************************************)
\* the last call completed on Redis raised the error of a WRONGTYPE reply
RaisedWrongType ==
    last_call.op # "none" /\ last_call.raised = "ResponseError"

\* the account of user_id can be read and is the account of that user
AccountReadable(user_id) ==
    /\ RedisGetUserById(redis, user_id).raised = ""
    /\ RedisGetUserById(redis, user_id).user.user_id = user_id

\* the credit record of user_id can be read
CreditsReadable(user_id) == RedisLoadUserRecord(redis, user_id).raised = ""

\* C32: on the Redis backend the account written by save_user and the
\* credit record written by _save_user_record for one user_id live under
\* different keys: after any sequence of signup, login, consume and
\* add-credit operations both records of every account are readable, and
\* no operation has met a value of the wrong type.
C32_RecordsApart ==
    /\ ~RaisedWrongType
    /\ \A u \in Registered(redis) :
          /\ _key_user(u) # _make_key(u)
          /\ AccountReadable(u)
          /\ CreditsReadable(u)

\* what the code does instead.  The two key functions give the same key.
KeysCoincide == \A u \in UserIds : _key_user(u) = _make_key(u)

\* The account stays readable whatever is called,
AccountsStayReadable == \A u \in Registered(redis) : AccountReadable(u)

\* because no credit record is ever written: every call of a credit
\* function for an account raises, and the key keeps holding the string.
CreditCallsAllRaise ==
    /\ last_call.op \in {"consume_credit_or_fail", "add_paid_credits"} =>
          /\ last_call.raised = "ResponseError"
          /\ redis = last_call.before
    /\ \A u \in Registered(redis) : ~CreditsReadable(u)

\* an account that has logged in again on a later day was refused a credit
\* it was to be granted
GrantRaisedOnAccountKey ==
    /\ last_call.op = "add_paid_credits"
    /\ last_call.raised = "ResponseError"
    /\ LET user == RedisGetUserById(redis, last_call.user_id).user
       IN  user.last_login > user.created_at

(***************************************************************************)
(* Claims about redelivered webhook events                                 *)
(***************************************************************************)
\* the paid credits the last webhook request added to the user of its event
CreditedByLastDelivery ==
    LET u == last_call.payload.metadata.user_id
    IN  Stored(_in_memory_store, u).paid_credits
            - Stored(last_call.before, u).paid_credits

\* the last webhook request delivered an event that had been delivered
Redelivery ==
    /\ Request("stripe_webhook")
    /\ last_call.delivered[last_call.payload.id] > 0

\* C33: each completed checkout session credits its user at most once: when
\* the checkout.session.completed event of one session id is delivered to
\* the webhook more than once, the user's paid_credits increase by the
\* plan's amount for the first delivery only.
C33_CreditedOncePerSession ==
    Request("stripe_webhook") =>
        /\ ~Redelivery =>
              CreditedByLastDelivery
                  = PlanCredits(last_call.payload.metadata.plan_id)
        /\ Redelivery => CreditedByLastDelivery = 0

\* what the code does instead: every delivery is answered 200 "ok" and
\* credits the plan's amount, whether the session was credited before or
\* not, so that a user holds the plan's amount once per delivery
EveryDeliveryCredits ==
    /\ Request("stripe_webhook") =>
          /\ last_call.status = 200
          /\ last_call.body = "ok"
          /\ CreditedByLastDelivery
                 = PlanCredits(last_call.payload.metadata.plan_id)
    /\ Request("stripe_webhook") =>
          Stored(_in_memory_store, "u2").paid_credits
              = DeliveredSoFar["cs_3"] * PlanCredits("bronze")
                + DeliveredSoFar["cs_4"] * PlanCredits("gold")

\* the one bronze session of a user was delivered twice and nothing else
\* for that user: the user holds 100 paid credits
ReplayCreditedTwice ==
    /\ Redelivery
    /\ last_call.payload.id = "cs_3"
    /\ last_call.delivered["cs_4"] = 0
    /\ Stored(_in_memory_store, "u2").paid_credits = 100
====
